---- MODULE Spec2Model ----
(***************************************************************************)
(* Model of the Mystery Gift save-file core: SaveFile (savefile.cpp) and   *)
(* the MysteryGift codec (mysterygift.cpp).                                *)
(*                                                                         *)
(* Representation.  A QByteArray is a record [size, nz]: its length and    *)
(* the function from the offsets of its non-zero bytes to their values;    *)
(* every other offset below size holds 0x00.  All offsets and sizes are    *)
(* the ones of the source.  A 32-bit unsigned value is the pair            *)
(* <<high 16 bits, low 16 bits>>, so that uint32_t arithmetic keeps its    *)
(* width.                                                                  *)
(***************************************************************************)
EXTENDS Integers, Sequences, FiniteSets, TLC

VARIABLES disk, sf, call, nOps, ck, fn

vars == <<disk, sf, call, nOps, ck, fn>>

(***************************************************************************)
(* Program constants (savefile.h, mysterygift.h)                           *)
(***************************************************************************)
EXPECTED_FILE_SIZE == 131072
SECTION_SIZE == 4096
SECTIONS_PER_SAVE == 14
SECTION_ID_OFFSET == 4084
CHECKSUM_OFFSET == 4086
SIGNATURE_OFFSET == 4088
SAVE_INDEX_OFFSET == 4092
CHECKSUM_DATA_LENGTH_DEFAULT == 3968
CHECKSUM_DATA_LENGTH_SECTION4_FRLG == 3816
CHECKSUM_DATA_LENGTH_SECTION4_EMERALD == 3848
GAME_CODE_OFFSET == 172
WONDERCARD_BLOCK_MARKER == 4
WONDERCARD_OFFSET_FRLG == 1120
WONDERCARD_OFFSET_EMERALD == 1388
GMSCRIPT_OFFSET_FRLG == 1948
GMSCRIPT_OFFSET_EMERALD == 2216
WCMETADATA_OFFSET_FRLG == 1460
WCMETADATA_OFFSET_EMERALD == 1728
WCMETADATA_ICON_OFFSET == 6
WCMETADATA_SIZE == 32
TRAINERIDS_OFFSET_FRLG == 1884
TRAINERIDS_OFFSET_EMERALD == 2152
TRAINERIDS_SIZE == 40
RAM_SCRIPT_MAGIC == 51
RAMSCRIPT_MAGIC_OFFSET == 0
RAMSCRIPT_SIZE == 1000
GMSCRIPT_SIZE_WITH_CRC == 1004
MYSTERY_GIFT_OFFSET_FRLG == 103
MYSTERY_GIFT_BIT_FRLG == 2
MYSTERY_GIFT_OFFSET_EMERALD == 1035
MYSTERY_GIFT_BIT_EMERALD == 8
WONDERCARD_PAYLOAD_SIZE == 332
WONDERCARD_HEADER_SIZE == 4
WONDERCARD_TOTAL_SIZE == 336
TEXT_FIELD_SIZE == 40

(***************************************************************************)
(* QByteArray and raw memory                                               *)
(***************************************************************************)
EmptyBytes == [size |-> 0, nz |-> [o \in {} |-> 0]]

\* QByteArray(size, 0x00)
ZeroBytes(n) == [size |-> n, nz |-> [o \in {} |-> 0]]

\* data[o]
At(b, o) == IF o \in DOMAIN b.nz THEN b.nz[o] ELSE 0

isEmpty(b) == b.size = 0

\* one byte store: data[o] = v
Poke(b, o, v) ==
  [size |-> b.size,
   nz |-> [p \in (IF v = 0 THEN DOMAIN b.nz \ {o} ELSE DOMAIN b.nz \cup {o})
             |-> IF p = o THEN v ELSE b.nz[p]]]

\* memset(data + o, 0x00, n)
MemsetZero(b, o, n) ==
  [size |-> b.size,
   nz |-> [p \in {q \in DOMAIN b.nz : q < o \/ q >= o + n} |-> b.nz[p]]]

\* memcpy(data + o, src.constData(), n)
Memcpy(b, o, src, n) ==
  [size |-> b.size,
   nz |-> [p \in {q \in DOMAIN b.nz : q < o \/ q >= o + n}
                 \cup {o + q : q \in {r \in DOMAIN src.nz : r < n}}
             |-> IF p >= o /\ p < o + n THEN src.nz[p - o] ELSE b.nz[p]]]

\* QByteArray::mid(pos, len)
Mid(b, pos, len) ==
  LET n == IF pos >= b.size THEN 0
           ELSE IF pos + len > b.size THEN b.size - pos ELSE len
  IN [size |-> n,
      nz |-> [p \in {q - pos : q \in {r \in DOMAIN b.nz : r >= pos /\ r < pos + n}}
                |-> b.nz[p + pos]]]

\* little-endian reads: data[p] | (data[p+1] << 8) [| (data[p+2] << 16) | (data[p+3] << 24)]
ReadU16(b, p) == At(b, p) + 256 * At(b, p + 1)

ReadU32(b, p) == <<ReadU16(b, p + 2), ReadU16(b, p)>>

U32Gt(a, b) == a[1] > b[1] \/ (a[1] = b[1] /\ a[2] > b[2])

U32Zero == <<0, 0>>

U32One == <<0, 1>>

(***************************************************************************)
(* SaveFile::computeSectionChecksum                                        *)
(***************************************************************************)
\* <<hi, lo>> brought back to 32 bits: the carry of the low half goes to the
\* high half, the carry of the high half is lost
Wrap32(hi, lo) == <<(hi + lo \div 65536) % 65536, lo % 65536>>

\* sum += word, in uint32_t
AddWord(sum, b, p) == Wrap32(sum[1] + ReadU16(b, p + 2), sum[2] + ReadU16(b, p))

\* The word indexes below `words` whose word at data + 4*i is not zero: the
\* iterations of the loop that change sum.
NonZeroWords(b, base, words) ==
  {(q - base) \div 4 : q \in {r \in DOMAIN b.nz : r >= base /\ r < base + 4 * words}}

MinOf(is) == CHOOSE k \in is : \A j \in is : k <= j

MaxOf(is) == CHOOSE k \in is : \A j \in is : j <= k

\* for (i = 0; i < words; ++i) sum += word(i): the iterations in `is`, in
\* increasing order of i (an iteration over a zero word leaves sum as it is).
RECURSIVE SumWords(_, _, _, _)
SumRest(b, base, rest, sum) == IF sum[1] >= 0 THEN SumWords(b, base, rest, sum) ELSE sum

SumFrom(b, base, is, i, sum) == SumRest(b, base, is \ {i}, AddWord(sum, b, base + 4 * i))

SumWords(b, base, is, sum) ==
  IF is = {} THEN sum ELSE SumFrom(b, base, is, MinOf(is), sum)

\* the carry out of the fold added back instead of dropped
FoldEndAround(sum) ==
  (((sum[2] + sum[1]) % 65536) + ((sum[2] + sum[1]) \div 65536)) % 65536

\* sum = (sum & 0xFFFF) + (sum >> 16); return sum & 0xFFFF
Fold(sum) == (sum[2] + sum[1]) % 65536

computeSectionChecksum(b, base, length) ==
  Fold(SumWords(b, base, NonZeroWords(b, base, length \div 4), U32Zero))

(***************************************************************************)
(* SaveFile: slot analysis and game detection                              *)
(***************************************************************************)
SlotSize == SECTION_SIZE * SECTIONS_PER_SAVE

Sections == 0 .. (SECTIONS_PER_SAVE - 1)

isLoaded(s) == ~isEmpty(s.m_bytes)

\* computed != stored, for the section at sectionOffset
SectionMismatch(bytes, sectionOffset) ==
  computeSectionChecksum(bytes, sectionOffset, CHECKSUM_DATA_LENGTH_DEFAULT)
    # ReadU16(bytes, sectionOffset + CHECKSUM_OFFSET)

\* the positions of the slot at baseOffset whose footer id is 0
ZeroIdSections(bytes, baseOffset) ==
  {sec \in Sections :
     ReadU16(bytes, baseOffset + sec * SECTION_SIZE + SECTION_ID_OFFSET) = 0}

\* gameCode and hasSecurityKey are read in each section whose id is 0: the
\* values of the last such section are the ones the loop leaves
SlotGameCode(bytes, baseOffset, zeros) ==
  IF zeros = {} THEN U32Zero
  ELSE ReadU32(bytes, baseOffset + MaxOf(zeros) * SECTION_SIZE + GAME_CODE_OFFSET)

SlotHasSecurityKey(bytes, baseOffset, zeros) ==
  IF zeros = {} THEN FALSE
  ELSE ReadU32(bytes, baseOffset + MaxOf(zeros) * SECTION_SIZE + GAME_CODE_OFFSET + 4)
         # U32Zero

analyzeSaveSlot(s, slotIndex) ==
  [blockIndex |-> slotIndex,
   saveIndex |-> ReadU32(s.m_bytes, slotIndex * SlotSize + SAVE_INDEX_OFFSET),
   valid |-> \A sec \in Sections :
               ~SectionMismatch(s.m_bytes, slotIndex * SlotSize + sec * SECTION_SIZE),
   gameCode |-> SlotGameCode(s.m_bytes, slotIndex * SlotSize,
                             ZeroIdSections(s.m_bytes, slotIndex * SlotSize)),
   hasSecurityKey |-> SlotHasSecurityKey(s.m_bytes, slotIndex * SlotSize,
                                         ZeroIdSections(s.m_bytes, slotIndex * SlotSize))]

\* lines 216-221: the choice between the two analysed slots
PreferSlot(slot0, slot1) ==
  IF slot0.valid /\ ~slot1.valid THEN 0
  ELSE IF ~slot0.valid /\ slot1.valid THEN 1
  ELSE IF U32Gt(slot0.saveIndex, slot1.saveIndex) THEN 0 ELSE 1

findActiveSaveSlot(s) ==
  IF ~isLoaded(s) THEN -1
  ELSE PreferSlot(analyzeSaveSlot(s, 0), analyzeSaveSlot(s, 1))

\* lines 239-251: the game of the analysed active slot
GameOf(activeSlot) ==
  IF activeSlot.gameCode = U32One THEN "FireRedLeafGreen"
  ELSE IF activeSlot.hasSecurityKey /\ activeSlot.gameCode # U32One THEN "Emerald"
  ELSE IF activeSlot.gameCode = U32Zero THEN "RubySapphire"
  ELSE "Unknown"

\* lines 232-251, s1 being the object with m_activeSaveSlot assigned
DetectIn(s1) ==
  IF s1.m_activeSaveSlot < 0 THEN [obj |-> s1, game |-> "Unknown"]
  ELSE [obj |-> s1, game |-> GameOf(analyzeSaveSlot(s1, s1.m_activeSaveSlot))]

\* The object after detectGameType(): m_activeSaveSlot is assigned inside it;
\* `game` is the value it returns.
detectGameType(s) ==
  IF ~isLoaded(s) THEN [obj |-> s, game |-> "Unknown"]
  ELSE DetectIn([s EXCEPT !.m_activeSaveSlot = findActiveSaveSlot(s)])

\* lines 265-270, s1 being the object with m_activeSaveSlot assigned
ValidateIn(s1) ==
  IF s1.m_activeSaveSlot < 0 THEN [obj |-> s1, ret |-> FALSE]
  ELSE [obj |-> s1, ret |-> analyzeSaveSlot(s1, s1.m_activeSaveSlot).valid]

\* The object after validateChecksums() and the value it returns.
validateChecksums(s) ==
  IF ~isLoaded(s) THEN [obj |-> s, ret |-> FALSE]
  ELSE IF s.m_activeSaveSlot < 0
    THEN ValidateIn([s EXCEPT !.m_activeSaveSlot = findActiveSaveSlot(s)])
  ELSE ValidateIn(s)

NoPath == [kind |-> "none"]

\* SaveFile::SaveFile()
NewSaveFile ==
  [m_filePath |-> NoPath, m_bytes |-> EmptyBytes, m_detectedGame |-> "Unknown",
   m_checksumValid |-> FALSE, m_activeSaveSlot |-> -1]

\* m_detectedGame = detectGameType()
AssignGame(d) == [d.obj EXCEPT !.m_detectedGame = d.game]

\* m_checksumValid = validateChecksums(); return true
AssignValid(v) ==
  [obj |-> [v.obj EXCEPT !.m_checksumValid = v.ret], ret |-> TRUE, err |-> "",
   log |-> <<>>]

\* lines 26-62: loadFromFile after its first lines, `cleared` being the object
\* they leave.  `file` is what the file system holds at `path`.
loadInto(cleared, path, file) ==
  IF ~file.exists
    THEN [obj |-> cleared, ret |-> FALSE, err |-> "File does not exist", log |-> <<>>]
  ELSE IF ~file.opens
    THEN [obj |-> cleared, ret |-> FALSE, err |-> "Failed to open file", log |-> <<>>]
  ELSE IF file.data.size # EXPECTED_FILE_SIZE
    THEN [obj |-> [cleared EXCEPT !.m_bytes = EmptyBytes], ret |-> FALSE,
          err |-> "Invalid file size", log |-> <<>>]
  ELSE AssignValid(validateChecksums(AssignGame(detectGameType(
         [cleared EXCEPT !.m_bytes = file.data, !.m_filePath = path]))))

\* the first lines left out: the previous data stay
loadFromFileNoClear(s, path, file) == loadInto(s, path, file)

\* loadFromFile(path): lines 19-24 clear the previous data.  The object after
\* the call, the returned value and the error message.
loadFromFile(s, path, file) ==
  loadInto([m_filePath |-> NoPath, m_bytes |-> EmptyBytes, m_detectedGame |-> "Unknown",
            m_checksumValid |-> FALSE, m_activeSaveSlot |-> -1], path, file)

(***************************************************************************)
(* MysteryGift codec (mysterygift.cpp).  A QString is the sequence of its  *)
(* UTF-16 code units.                                                      *)
(***************************************************************************)
\* GEN3_TO_UNICODE[b] is element b + 1
GEN3_TO_UNICODE ==
  <<
    32, 192, 193, 194, 199, 200, 201, 202, 203, 204, 32, 206, 207, 210, 211, 212,
    338, 217, 218, 219, 209, 223, 224, 225, 0, 231, 232, 233, 234, 235, 236, 0,
    238, 239, 242, 243, 244, 339, 249, 250, 251, 241, 186, 170, 7497, 38, 43, 0,
    0, 76, 118, 61, 59, 0, 0, 0, 0, 0, 0, 0, 0, 0, 0, 0,
    0, 191, 161, 80, 75, 77, 78, 0, 0, 0, 0, 205, 37, 40, 41, 0,
    0, 226, 0, 237, 0, 0, 0, 0, 0, 0, 8593, 8595, 8592, 8594, 0, 0,
    42, 42, 42, 42, 7497, 60, 62, 0, 0, 0, 0, 0, 0, 0, 0, 0,
    0, 0, 0, 0, 0, 0, 0, 0, 0, 8593, 8595, 8592, 8594, 42, 42, 42,
    42, 42, 42, 42, 7497, 60, 62, 0, 0, 0, 0, 0, 0, 0, 0, 0,
    0, 0, 0, 0, 0, 0, 0, 0, 0, 0, 0, 0, 0, 0, 0, 0,
    0, 48, 49, 50, 51, 52, 53, 54, 55, 56, 57, 33, 63, 46, 45, 12539,
    8229, 8220, 8221, 8216, 8217, 9794, 9792, 32, 44, 215, 47, 65, 66, 67, 68, 69,
    70, 71, 72, 73, 74, 75, 76, 77, 78, 79, 80, 81, 82, 83, 84, 85,
    86, 87, 88, 89, 90, 97, 98, 99, 100, 101, 102, 103, 104, 105, 106, 107,
    108, 109, 110, 111, 112, 113, 114, 115, 116, 117, 118, 119, 120, 121, 122, 9658,
    58, 196, 214, 220, 228, 246, 252, 0, 0, 0, 0, 0, 0, 0, 0, 0
  >>

Bit(x, i) == (x \div (2 ^ i)) % 2

\* a ^ b on 8-bit operands
Xor8(a, b) ==
    ((Bit(a, 0) + Bit(b, 0)) % 2) + 2 * ((Bit(a, 1) + Bit(b, 1)) % 2)
  + 4 * ((Bit(a, 2) + Bit(b, 2)) % 2) + 8 * ((Bit(a, 3) + Bit(b, 3)) % 2)
  + 16 * ((Bit(a, 4) + Bit(b, 4)) % 2) + 32 * ((Bit(a, 5) + Bit(b, 5)) % 2)
  + 64 * ((Bit(a, 6) + Bit(b, 6)) % 2) + 128 * ((Bit(a, 7) + Bit(b, 7)) % 2)

\* the table value combined with the low byte of crc instead of crc >> 8
crcNextLowByte(tableValue, crc) ==
  (tableValue \div 256) * 256 + Xor8(tableValue % 256, crc % 256)

\* one iteration of the loop of calculateCRC16
\* crc = tableValue ^ (crc >> 8)
crcNext(tableValue, crc) ==
  (tableValue \div 256) * 256 + Xor8(tableValue % 256, crc \div 256)

crcStep(crc, byte, table) == crcNext(ReadU16(table, Xor8(crc % 256, byte) * 2), crc)

\* for (i = from; i < to; ++i) crc = step(crc, bytes[i]); the range is walked
\* in index order, split in halves to keep the evaluation depth logarithmic.
RECURSIVE crcLoop(_, _, _, _, _)
crcSecondHalf(data, table, mid, to, crc) ==
  IF crc >= 0 THEN crcLoop(data, table, mid, to, crc) ELSE crc

crcHalves(data, table, from, mid, to, crc) ==
  crcSecondHalf(data, table, mid, to, crcLoop(data, table, from, mid, crc))

crcLoop(data, table, from, to, crc) ==
  IF from >= to THEN crc
  ELSE IF to = from + 1 THEN crcStep(crc, At(data, from), table)
  ELSE crcHalves(data, table, from, (from + to) \div 2, to, crc)

calculateCRC16(data, crcTable) ==
  IF crcTable.size # 512 THEN 0
  ELSE 65535 - crcLoop(data, crcTable, 0, data.size, 4385)

\* lines 176-190: what decodeText appends for one byte that is not 0xFF
decodeChar(byte) ==
  IF GEN3_TO_UNICODE[byte + 1] # 0 THEN <<GEN3_TO_UNICODE[byte + 1]>>
  ELSE IF byte = 0 \/ byte = 160 THEN <<32>>
  ELSE IF byte = 254 THEN <<32>>
  ELSE IF byte = 250 \/ byte = 251 \/ byte = 252 \/ byte = 253 THEN <<32>>
  ELSE <<>>

\* the loop of decodeText from index i on, `result` being the string so far
RECURSIVE decodeFrom(_, _, _, _)
decodeFrom(data, i, maxLength, result) ==
  IF i >= maxLength THEN result
  ELSE IF At(data, i) = 255 THEN result
  ELSE decodeFrom(data, i + 1, maxLength, result \o decodeChar(At(data, i)))

decodeText(data, maxLength) == decodeFrom(data, 0, maxLength, <<>>)

\* lines 63-71: the record returned for a payload below 332 bytes
EmptyWonderCard ==
  [eventId |-> 0, icon |-> 0, count |-> <<0, 0>>, typeColorResend |-> 0, stampMax |-> 0,
   title |-> <<>>, subtitle |-> <<>>, contentLine1 |-> <<>>, contentLine2 |-> <<>>,
   contentLine3 |-> <<>>, contentLine4 |-> <<>>, warningLine1 |-> <<>>,
   warningLine2 |-> <<>>]

\* decodeText(bytes + off, TEXT_FIELD_SIZE)
TextAt(payload, off) == decodeText(Mid(payload, off, TEXT_FIELD_SIZE), TEXT_FIELD_SIZE)

\* the count read as 16 bits
parseAtNarrowCount(payload, at) ==
  [eventId |-> ReadU16(payload, at), icon |-> ReadU16(payload, at + 2),
   count |-> <<0, ReadU16(payload, at + 4)>>,
   typeColorResend |-> At(payload, at + 8), stampMax |-> At(payload, at + 9),
   title |-> TextAt(payload, at + 10), subtitle |-> TextAt(payload, at + 50),
   contentLine1 |-> TextAt(payload, at + 90), contentLine2 |-> TextAt(payload, at + 130),
   contentLine3 |-> TextAt(payload, at + 170), contentLine4 |-> TextAt(payload, at + 210),
   warningLine1 |-> TextAt(payload, at + 250), warningLine2 |-> TextAt(payload, at + 290)]

\* lines 73-106, `at` being the offset of bytes in the payload
parseAt(payload, at) ==
  [eventId |-> ReadU16(payload, at), icon |-> ReadU16(payload, at + 2),
   count |-> ReadU32(payload, at + 4),
   typeColorResend |-> At(payload, at + 8), stampMax |-> At(payload, at + 9),
   title |-> TextAt(payload, at + 10), subtitle |-> TextAt(payload, at + 50),
   contentLine1 |-> TextAt(payload, at + 90), contentLine2 |-> TextAt(payload, at + 130),
   contentLine3 |-> TextAt(payload, at + 170), contentLine4 |-> TextAt(payload, at + 210),
   warningLine1 |-> TextAt(payload, at + 250), warningLine2 |-> TextAt(payload, at + 290)]

parseWonderCard(payload) ==
  IF payload.size < WONDERCARD_PAYLOAD_SIZE THEN EmptyWonderCard
  ELSE parseAt(payload, IF payload.size = WONDERCARD_TOTAL_SIZE
                          THEN WONDERCARD_HEADER_SIZE ELSE 0)

\* the table scan alone, without the ranges checked first
unicodeToGen3ScanOnly(unicode) ==
  IF {i \in 0 .. 255 : GEN3_TO_UNICODE[i + 1] = unicode} = {} THEN 0
  ELSE CHOOSE i \in 0 .. 255 :
         /\ GEN3_TO_UNICODE[i + 1] = unicode
         /\ \A j \in 0 .. (i - 1) : GEN3_TO_UNICODE[j + 1] # unicode

\* the digits placed from 0xA0 instead of 0xA1
unicodeToGen3DigitsLow(unicode) ==
  IF unicode >= 48 /\ unicode <= 57 THEN 160 + (unicode - 48)
  ELSE IF unicode >= 65 /\ unicode <= 90 THEN 187 + (unicode - 65)
  ELSE IF unicode >= 97 /\ unicode <= 122 THEN 213 + (unicode - 97)
  ELSE unicodeToGen3ScanOnly(unicode)

\* the first table index found by the scan of lines 232-238, 0x00 when none
FirstOrZero(hits) == IF hits = {} THEN 0 ELSE MinOf(hits)

unicodeToGen3(unicode) ==
  IF unicode >= 48 /\ unicode <= 57 THEN 161 + (unicode - 48)
  ELSE IF unicode >= 65 /\ unicode <= 90 THEN 187 + (unicode - 65)
  ELSE IF unicode >= 97 /\ unicode <= 122 THEN 213 + (unicode - 97)
  ELSE IF unicode = 33 THEN 171
  ELSE IF unicode = 63 THEN 172
  ELSE IF unicode = 46 THEN 173
  ELSE IF unicode = 45 THEN 174
  ELSE IF unicode = 44 THEN 184
  ELSE IF unicode = 47 THEN 186
  ELSE IF unicode = 58 THEN 240
  ELSE IF unicode = 32 THEN 0
  ELSE FirstOrZero({i \in 0 .. 255 : GEN3_TO_UNICODE[i + 1] = unicode})

\* encodeText(dest, text, maxLength): the maxLength bytes left at dest,
\* as the function from the offsets of the non-zero ones
encodeText(text, maxLength) ==
  [o \in {k \in 0 .. (Len(text) - 1) : k < maxLength /\ unicodeToGen3(text[k + 1]) # 0}
     |-> unicodeToGen3(text[o + 1])]

\* bytes written at payload + off by a call of encodeText
PutText(b, off, text) ==
  Memcpy(b, off, [size |-> TEXT_FIELD_SIZE, nz |-> encodeText(text, TEXT_FIELD_SIZE)],
         TEXT_FIELD_SIZE)

\* lines 114-127: eventId, icon, count, typeColorResend, stampMax
PutNumbers(p, data) ==
  Poke(Poke(Poke(Poke(Poke(Poke(Poke(Poke(Poke(Poke(p,
    0, data.eventId % 256), 1, (data.eventId \div 256) % 256),
    2, data.icon % 256), 3, (data.icon \div 256) % 256),
    4, data.count[2] % 256), 5, data.count[2] \div 256),
    6, data.count[1] % 256), 7, data.count[1] \div 256),
    8, data.typeColorResend), 9, data.stampMax)

encodeWonderCard(data) ==
  PutText(PutText(PutText(PutText(PutText(PutText(PutText(PutText(
    PutNumbers(ZeroBytes(WONDERCARD_PAYLOAD_SIZE), data),
    10, data.title), 50, data.subtitle), 90, data.contentLine1),
    130, data.contentLine2), 170, data.contentLine3), 210, data.contentLine4),
    250, data.warningLine1), 290, data.warningLine2)

(***************************************************************************)
(* SaveFile: section lookup, Wonder Card extraction and injection          *)
(***************************************************************************)
\* the lowest physical position of `ps`, or -1
FirstOf(ps) == IF ps = {} THEN -1 ELSE MinOf(ps)

findWonderCardBlock(s) ==
  IF ~isLoaded(s) \/ s.m_activeSaveSlot < 0 THEN -1
  ELSE LET slotOffset == s.m_activeSaveSlot * SlotSize
       IN FirstOf({section \in Sections :
             At(s.m_bytes, slotOffset + section * SECTION_SIZE + SECTION_ID_OFFSET)
               = WONDERCARD_BLOCK_MARKER})

findSection(s, sectionId) ==
  IF ~isLoaded(s) \/ s.m_activeSaveSlot < 0 THEN -1
  ELSE LET slotOffset == s.m_activeSaveSlot * SlotSize
       IN FirstOf({pos \in Sections :
             ReadU16(s.m_bytes, slotOffset + pos * SECTION_SIZE + SECTION_ID_OFFSET)
               = sectionId})

getSection4ChecksumLength(s) ==
  IF s.m_detectedGame = "Emerald" THEN CHECKSUM_DATA_LENGTH_SECTION4_EMERALD
  ELSE CHECKSUM_DATA_LENGTH_SECTION4_FRLG

getSectionChecksumLength(s, sectionId) ==
  IF sectionId = 4 THEN getSection4ChecksumLength(s)
  ELSE IF sectionId = 0
    THEN (IF s.m_detectedGame = "Emerald" THEN 3884
          ELSE IF s.m_detectedGame = "FireRedLeafGreen" THEN 3876
          ELSE 2192)
  ELSE IF sectionId = 13 THEN 2000
  ELSE CHECKSUM_DATA_LENGTH_DEFAULT

wonderCardOffsetOf(s) ==
  IF s.m_detectedGame = "Emerald" THEN WONDERCARD_OFFSET_EMERALD ELSE WONDERCARD_OFFSET_FRLG

scriptOffsetOf(s) ==
  IF s.m_detectedGame = "Emerald" THEN GMSCRIPT_OFFSET_EMERALD ELSE GMSCRIPT_OFFSET_FRLG

metadataOffsetOf(s) ==
  IF s.m_detectedGame = "Emerald" THEN WCMETADATA_OFFSET_EMERALD ELSE WCMETADATA_OFFSET_FRLG

trainerIdsOffsetOf(s) ==
  IF s.m_detectedGame = "Emerald" THEN TRAINERIDS_OFFSET_EMERALD ELSE TRAINERIDS_OFFSET_FRLG

\* offset of the gift section in the file: slotOffset + wonderCardBlock * SECTION_SIZE
blockOffsetOf(s) == s.m_activeSaveSlot * SlotSize + findWonderCardBlock(s) * SECTION_SIZE

hasWonderCard(s) ==
  IF ~isLoaded(s) THEN FALSE
  ELSE IF findWonderCardBlock(s) < 0 THEN FALSE
  ELSE ReadU16(s.m_bytes, blockOffsetOf(s) + wonderCardOffsetOf(s)) # 0

extractWonderCardRaw(s) ==
  IF ~isLoaded(s) THEN [data |-> EmptyBytes, err |-> "No save file loaded"]
  ELSE IF s.m_detectedGame = "Unknown"
    THEN [data |-> EmptyBytes, err |-> "Unknown game type - cannot extract Wonder Card"]
  ELSE IF s.m_detectedGame = "RubySapphire"
    THEN [data |-> EmptyBytes, err |-> "Ruby/Sapphire do not support Wonder Cards"]
  ELSE IF findWonderCardBlock(s) < 0
    THEN [data |-> EmptyBytes, err |-> "Wonder Card block not found in save file"]
  ELSE [data |-> Mid(s.m_bytes, blockOffsetOf(s) + wonderCardOffsetOf(s), 336), err |-> ""]

extractScript(s) ==
  IF ~isLoaded(s) THEN [data |-> EmptyBytes, err |-> "No save file loaded"]
  ELSE IF s.m_detectedGame = "Unknown"
    THEN [data |-> EmptyBytes, err |-> "Unknown game type - cannot extract script"]
  ELSE IF s.m_detectedGame = "RubySapphire"
    THEN [data |-> EmptyBytes, err |-> "Ruby/Sapphire scripts are different format"]
  ELSE IF findWonderCardBlock(s) < 0
    THEN [data |-> EmptyBytes, err |-> "Wonder Card block not found in save file"]
  ELSE [data |-> Mid(s.m_bytes, blockOffsetOf(s) + scriptOffsetOf(s) + 4, 1000), err |-> ""]

\* Writes to the save buffer, each recorded as <<offset, length>> in program order.
WPoke(m, o, v) == [bytes |-> Poke(m.bytes, o, v), log |-> Append(m.log, <<o, 1>>)]

WMemsetZero(m, o, n) == [bytes |-> MemsetZero(m.bytes, o, n), log |-> Append(m.log, <<o, n>>)]

WMemcpy(m, o, src, n) == [bytes |-> Memcpy(m.bytes, o, src, n), log |-> Append(m.log, <<o, n>>)]

\* always the encoded record, the raw bytes ignored
cardPayloadRecordFirst(wonderCard, rawWonderCardData) == encodeWonderCard(wonderCard)

\* lines 523-538: the card payload injectWonderCard writes
cardPayloadOf(wonderCard, rawWonderCardData) ==
  IF ~isEmpty(rawWonderCardData)
    THEN (IF rawWonderCardData.size = WONDERCARD_TOTAL_SIZE
            THEN Mid(rawWonderCardData, WONDERCARD_HEADER_SIZE, WONDERCARD_PAYLOAD_SIZE)
          ELSE IF rawWonderCardData.size = WONDERCARD_PAYLOAD_SIZE THEN rawWonderCardData
          ELSE encodeWonderCard(wonderCard))
  ELSE encodeWonderCard(wonderCard)

\* lines 560-567: scriptPayload, the 1000 bytes to write, or an empty array
scriptPayloadOf(scriptData) ==
  IF scriptData.size = GMSCRIPT_SIZE_WITH_CRC THEN Mid(scriptData, 4, RAMSCRIPT_SIZE)
  ELSE IF scriptData.size = RAMSCRIPT_SIZE THEN scriptData
  ELSE EmptyBytes

\* the payload written as supplied
scriptToWriteNoMagic(scriptPayload) == scriptPayload

\* lines 571-576: scriptToWrite, the copy with the magic number forced at offset 0
scriptToWriteOf(scriptPayload) ==
  IF At(scriptPayload, RAMSCRIPT_MAGIC_OFFSET) # RAM_SCRIPT_MAGIC
    THEN Poke(scriptPayload, RAMSCRIPT_MAGIC_OFFSET, RAM_SCRIPT_MAGIC)
  ELSE scriptPayload

\* lines 517-521: the optional clearing of the trainer ids
injectClearIds(m, blockOffset, trainerIdsOffset, options) ==
  IF options.clearTrainerIds
    THEN WMemsetZero(m, blockOffset + trainerIdsOffset, TRAINERIDS_SIZE)
  ELSE m

\* lines 510-521: the optional clearing of the metadata (with the 4 bytes of
\* its header) and of the trainer ids
injectClear(m, blockOffset, metadataOffset, trainerIdsOffset, options) ==
  IF options.clearMetadata
    THEN injectClearIds(
           WMemsetZero(WMemsetZero(m, blockOffset + metadataOffset, WCMETADATA_SIZE),
                       blockOffset + metadataOffset - 4, 4),
           blockOffset, trainerIdsOffset, options)
  ELSE injectClearIds(m, blockOffset, trainerIdsOffset, options)

\* a CRC16 low byte first, two zero bytes, then the n bytes of data, at `at`
WriteWithHeader(m, at, crc, data, n) ==
  WMemcpy(WPoke(WPoke(WPoke(WPoke(m, at, crc % 256), at + 1, (crc \div 256) % 256),
                      at + 2, 0), at + 3, 0),
          at + 4, data, n)

\* lines 540-551: CRC16, padding and payload of the card
injectCard(m, wc, wonderCardPayload, crcTable) ==
  WriteWithHeader(m, wc, calculateCRC16(wonderCardPayload, crcTable), wonderCardPayload,
                  WONDERCARD_PAYLOAD_SIZE)

\* lines 569-587: the script with its header, scriptToWrite given
injectScriptBytes(m, sc, scriptToWrite, crcTable) ==
  WriteWithHeader(m, sc, calculateCRC16(scriptToWrite, crcTable), scriptToWrite,
                  RAMSCRIPT_SIZE)

\* lines 560-588: the script, when 1000 or 1004 bytes were given
injectScript(m, sc, scriptData, crcTable) ==
  IF scriptPayloadOf(scriptData).size = RAMSCRIPT_SIZE
    THEN injectScriptBytes(m, sc, scriptToWriteOf(scriptPayloadOf(scriptData)), crcTable)
  ELSE m

\* lines 590-597: the icon mirrored into WonderCardMetadata.iconSpecies
injectIconValue(m, iconOffset, iconSpecies) ==
  WPoke(WPoke(m, iconOffset, iconSpecies % 256),
        iconOffset + 1, (iconSpecies \div 256) % 256)

\* the copy of the icon left out
injectIconOmitted(m, iconOffset, wonderCardPayload) == m

injectIcon(m, iconOffset, wonderCardPayload) ==
  injectIconValue(m, iconOffset, ReadU16(wonderCardPayload, 2))

\* the checksum stored low byte first in the footer of the section at sectionOffset
StoreChecksum(m, sectionOffset, checksum) ==
  WPoke(WPoke(m, sectionOffset + CHECKSUM_OFFSET, checksum % 256),
        sectionOffset + CHECKSUM_OFFSET + 1, (checksum \div 256) % 256)

\* the block summed over the default length
injectChecksumDefaultLength(m, blockOffset, checksumDataLength) ==
  StoreChecksum(m, blockOffset,
                computeSectionChecksum(m.bytes, blockOffset, CHECKSUM_DATA_LENGTH_DEFAULT))

\* lines 599-607: the block checksum, computed over the bytes written so far
injectChecksum(m, blockOffset, checksumDataLength) ==
  StoreChecksum(m, blockOffset,
                computeSectionChecksum(m.bytes, blockOffset, checksumDataLength))

\* return true, with the buffer and the writes of m
Written(s, m) ==
  [obj |-> [s EXCEPT !.m_bytes = m.bytes], ret |-> TRUE, err |-> "", log |-> m.log]

\* lines 504-609: the writes, the gift section being at blockOffset and
\* wonderCardPayload being the card to write
injectAt(s, blockOffset, wonderCardPayload, scriptData, crcTable, options) ==
  Written(s,
    injectChecksum(
      injectIcon(
        injectScript(
          injectCard(
            injectClear([bytes |-> s.m_bytes, log |-> <<>>], blockOffset,
                        metadataOffsetOf(s), trainerIdsOffsetOf(s), options),
            blockOffset + wonderCardOffsetOf(s), wonderCardPayload, crcTable),
          blockOffset + scriptOffsetOf(s), scriptData, crcTable),
        blockOffset + metadataOffsetOf(s) + WCMETADATA_ICON_OFFSET, wonderCardPayload),
      blockOffset, getSection4ChecksumLength(s)))

\* The object after injectWonderCard, the returned value, the error message
\* and the writes made to the save buffer.
injectWonderCard(s, wonderCard, scriptData, crcTable, rawWonderCardData, options) ==
  IF ~isLoaded(s)
    THEN [obj |-> s, ret |-> FALSE, err |-> "No save file loaded", log |-> <<>>]
  ELSE IF s.m_detectedGame = "Unknown"
    THEN [obj |-> s, ret |-> FALSE,
          err |-> "Unknown game type - cannot inject Wonder Card", log |-> <<>>]
  ELSE IF s.m_detectedGame = "RubySapphire"
    THEN [obj |-> s, ret |-> FALSE,
          err |-> "Ruby/Sapphire do not support Wonder Cards", log |-> <<>>]
  ELSE IF findWonderCardBlock(s) < 0
    THEN [obj |-> s, ret |-> FALSE,
          err |-> "Wonder Card block not found in save file", log |-> <<>>]
  ELSE injectAt(s, blockOffsetOf(s), cardPayloadOf(wonderCard, rawWonderCardData),
                scriptData, crcTable, options)

(***************************************************************************)
(* SaveFile: the Mystery Gift flag                                         *)
(***************************************************************************)
flagOffsetOf(s) ==
  IF s.m_detectedGame = "Emerald" THEN MYSTERY_GIFT_OFFSET_EMERALD
  ELSE MYSTERY_GIFT_OFFSET_FRLG

flagBitOf(s) ==
  IF s.m_detectedGame = "Emerald" THEN MYSTERY_GIFT_BIT_EMERALD ELSE MYSTERY_GIFT_BIT_FRLG

\* (value & flagBit) != 0, flagBit a power of two
HasBit(value, flagBit) == (value \div flagBit) % 2 = 1

\* the offset of the gift section taken for that of section 2
section2OffsetOfGift(s) == blockOffsetOf(s)

section2OffsetOf(s) == s.m_activeSaveSlot * SlotSize + findSection(s, 2) * SECTION_SIZE

isMysteryGiftEnabled(s) ==
  IF ~isLoaded(s) \/ s.m_activeSaveSlot < 0 THEN FALSE
  ELSE IF s.m_detectedGame = "Unknown" \/ s.m_detectedGame = "RubySapphire" THEN FALSE
  ELSE IF findSection(s, 2) < 0 THEN FALSE
  ELSE HasBit(At(s.m_bytes, section2OffsetOf(s) + flagOffsetOf(s)), flagBitOf(s))

\* lines 765-770: the checksum of section 2 recomputed and stored
enableChecksum(m, section2Offset, checksumLength) ==
  StoreChecksum(m, section2Offset,
                computeSectionChecksum(m.bytes, section2Offset, checksumLength))

\* the bit set, the checksum left as it was
enableSetBitNoChecksum(m, section2Offset, flagOffset, flagBit, checksumLength) ==
  WPoke(m, section2Offset + flagOffset, At(m.bytes, section2Offset + flagOffset) + flagBit)

\* lines 761-770: set the bit (it is clear), then recompute and store the checksum
enableSetBit(m, section2Offset, flagOffset, flagBit, checksumLength) ==
  enableChecksum(
    WPoke(m, section2Offset + flagOffset, At(m.bytes, section2Offset + flagOffset) + flagBit),
    section2Offset, checksumLength)

\* lines 754-772, section 2 being at section2Offset
enableAt(s, section2Offset) ==
  IF HasBit(At(s.m_bytes, section2Offset + flagOffsetOf(s)), flagBitOf(s))
    THEN [obj |-> s, ret |-> TRUE, err |-> "", log |-> <<>>]
  ELSE Written(s, enableSetBit([bytes |-> s.m_bytes, log |-> <<>>], section2Offset,
                               flagOffsetOf(s), flagBitOf(s),
                               getSectionChecksumLength(s, 2)))

enableMysteryGift(s) ==
  IF ~isLoaded(s)
    THEN [obj |-> s, ret |-> FALSE, err |-> "No save file loaded", log |-> <<>>]
  ELSE IF s.m_detectedGame = "Unknown"
    THEN [obj |-> s, ret |-> FALSE,
          err |-> "Unknown game type - cannot enable Mystery Gift", log |-> <<>>]
  ELSE IF s.m_detectedGame = "RubySapphire"
    THEN [obj |-> s, ret |-> FALSE,
          err |-> "Ruby/Sapphire use Mystery Event, not Mystery Gift", log |-> <<>>]
  ELSE IF findSection(s, 2) < 0
    THEN [obj |-> s, ret |-> FALSE, err |-> "Section 2 not found in save file",
          log |-> <<>>]
  ELSE enableAt(s, section2OffsetOf(s))

(***************************************************************************)
(* GBAROReader (gbaromreader.cpp): reads of m_romData.  An offset is a     *)
(* uint32_t, the pair <<high 16 bits, low 16 bits>>; the buffer is shorter *)
(* than 2^16 bytes.  A read returns the set of its possible outcomes       *)
(* [val, oob]: oob tells that m_romData was indexed outside its bytes, and *)
(* val is then what the build makes of it, a stray byte or -1 for a fault. *)
(***************************************************************************)
U32Plus(o, k) == Wrap32(o[1], o[2] + k)

U32Ge(a, b) == ~U32Gt(b, a)

\* static_cast<uint32_t>(m_romData.size())
RomSize(rom) == <<0, rom.size>>

\* values a byte read outside the buffer can have
StrayBytes == {0, 255}

\* m_romData[o]
RomAt(rom, o) ==
  IF o[1] = 0 /\ o[2] < rom.size THEN {[val |-> At(rom, o[2]), oob |-> FALSE]}
  ELSE {[val |-> g, oob |-> TRUE] : g \in StrayBytes \cup {-1}}

readByte(rom, offset) ==
  IF U32Ge(offset, RomSize(rom)) THEN {[val |-> 0, oob |-> FALSE]}
  ELSE RomAt(rom, offset)

\* lo | (hi << 8), or the fault
HalfOf(lo, hi) ==
  [val |-> IF lo.val < 0 \/ hi.val < 0 THEN -1 ELSE lo.val + 256 * hi.val,
   oob |-> lo.oob \/ hi.oob]

readHalfWord(rom, offset) ==
  IF U32Ge(U32Plus(offset, 1), RomSize(rom)) THEN {[val |-> 0, oob |-> FALSE]}
  ELSE {HalfOf(lo, hi) : lo \in RomAt(rom, offset), hi \in RomAt(rom, U32Plus(offset, 1))}

\* b0 | (b1 << 8) | (b2 << 16) | (b3 << 24) as <<high half, low half>>, or the fault
WordOf(l, h) ==
  [val |-> IF l.val < 0 \/ h.val < 0 THEN <<-1, -1>> ELSE <<h.val, l.val>>,
   oob |-> l.oob \/ h.oob]

readWord(rom, offset) ==
  IF U32Ge(U32Plus(offset, 3), RomSize(rom)) THEN {[val |-> <<0, 0>>, oob |-> FALSE]}
  ELSE {WordOf(HalfOf(b0, b1), HalfOf(b2, b3)) :
          b0 \in RomAt(rom, offset), b1 \in RomAt(rom, U32Plus(offset, 1)),
          b2 \in RomAt(rom, U32Plus(offset, 2)), b3 \in RomAt(rom, U32Plus(offset, 3))}

\* m_romData.mid(offset, length) for an offset of 2^31 or more, which a build
\* with an int position takes as offset - 2^32 (a negative position cuts
\* the length), and a build with a 64-bit position takes as past the end
MidFarOffset(rom, back, length) ==
  {EmptyBytes}
  \cup (IF length - back >= rom.size THEN {rom}
        ELSE IF length - back <= 0 THEN {EmptyBytes}
        ELSE {Mid(rom, 0, length - back)})

\* length >= 0
readBytes(rom, offset, length) ==
  IF U32Gt(U32Plus(offset, length), RomSize(rom))
    THEN {[val |-> EmptyBytes, oob |-> FALSE]}
  ELSE IF offset[1] < 32768
    THEN {[val |-> Mid(rom, offset[1] * 65536 + offset[2], length), oob |-> FALSE]}
  ELSE {[val |-> b, oob |-> FALSE] :
          b \in MidFarOffset(rom, (65535 - offset[1]) * 65536 + (65536 - offset[2]), length)}

(***************************************************************************)
(* GBAROReader::decompressLZ77.  The output is a sequence of bytes.  A     *)
(* read of src[] outside m_romData yields the stray value g and sets oob;  *)
(* the result is [data, err, oob].                                         *)
(***************************************************************************)
lzError(msg, oob) == [data |-> <<>>, err |-> msg, oob |-> oob]

\* src[pos]
SrcAt(rom, pos, g) == IF pos < rom.size THEN At(rom, pos) ELSE g

\* the value readByte returns
ByteRead(rom, offset) == (CHOOSE r \in readByte(rom, offset) : TRUE).val

\* lines 677-679
lzDeclaredSize(rom, offset) ==
  ByteRead(rom, U32Plus(offset, 1)) + 256 * ByteRead(rom, U32Plus(offset, 2))
    + 65536 * ByteRead(rom, U32Plus(offset, 3))

\* the length taken as the high nibble alone
lzLengthNoBase(byte1) == (byte1 \div 16) % 16

\* ((byte1 >> 4) & 0x0F) + 3
lzLength(byte1) == ((byte1 \div 16) % 16) + 3

\* (((byte1 & 0x0F) << 8) | byte2) + 1
lzDisplacement(byte1, byte2) == (byte1 % 16) * 256 + byte2 + 1

\* lines 727-732: the copy loop from iteration j on
RECURSIVE lzCopy(_, _, _, _, _)
lzCopy(out, copyPos, j, length, size) ==
  IF j >= length \/ Len(out) >= size THEN out
  ELSE lzCopy(Append(out, out[copyPos + j + 1]), copyPos, j + 1, length, size)

\* lines 688-745: lzWhile is the test of the while loop, lzFor the test of the
\* for loop at iteration i, lzBlock one block, lzBackRef a compressed block
RECURSIVE lzWhile(_, _, _, _, _, _)
RECURSIVE lzFor(_, _, _, _, _, _, _, _)
lzBackRef(rom, g, size, srcPos, out, flags, i, oob) ==
  IF Len(out) - lzDisplacement(SrcAt(rom, srcPos, g), SrcAt(rom, srcPos + 1, g)) < 0
    THEN lzError("Invalid LZ77 displacement", oob)
  ELSE lzFor(rom, g, size, srcPos + 2,
             lzCopy(out,
                    Len(out) - lzDisplacement(SrcAt(rom, srcPos, g),
                                              SrcAt(rom, srcPos + 1, g)),
                    0, lzLength(SrcAt(rom, srcPos, g)), size),
             (flags * 2) % 256, i + 1, oob)

lzBlock(rom, g, size, srcPos, out, flags, i, oob) ==
  IF srcPos >= rom.size THEN lzError("Unexpected end of compressed data", oob)
  ELSE IF flags >= 128
    THEN (IF srcPos + 1 >= rom.size
            THEN lzError("Unexpected end of compressed data", oob)
          ELSE lzBackRef(rom, g, size, srcPos, out, flags, i,
                         oob \/ srcPos + 1 >= rom.size))
  ELSE lzFor(rom, g, size, srcPos + 1, Append(out, SrcAt(rom, srcPos, g)),
             (flags * 2) % 256, i + 1, oob \/ srcPos >= rom.size)

lzFor(rom, g, size, srcPos, out, flags, i, oob) ==
  IF i >= 8 \/ Len(out) >= size THEN lzWhile(rom, g, size, srcPos, out, oob)
  ELSE lzBlock(rom, g, size, srcPos, out, flags, i, oob)

lzWhile(rom, g, size, srcPos, out, oob) ==
  IF Len(out) >= size THEN [data |-> out, err |-> "", oob |-> oob]
  ELSE IF srcPos >= rom.size THEN lzError("Unexpected end of compressed data", oob)
  ELSE lzFor(rom, g, size, srcPos + 1, out, SrcAt(rom, srcPos, g), 0,
             oob \/ srcPos >= rom.size)

\* the declared size taken as it comes
lzRunAnySize(rom, offset, g) ==
  IF U32Gt(U32Plus(offset, 4), RomSize(rom)) THEN lzError("Offset out of bounds", FALSE)
  ELSE IF ByteRead(rom, offset) # 16 THEN lzError("Not LZ77 compressed data", FALSE)
  ELSE lzWhile(rom, g, lzDeclaredSize(rom, offset), U32Plus(offset, 4)[2], <<>>, FALSE)

\* lines 661-686, then the loop from srcPos = offset + 4
lzRun(rom, offset, g) ==
  IF U32Gt(U32Plus(offset, 4), RomSize(rom)) THEN lzError("Offset out of bounds", FALSE)
  ELSE IF ByteRead(rom, offset) # 16 THEN lzError("Not LZ77 compressed data", FALSE)
  ELSE IF lzDeclaredSize(rom, offset) = 0 \/ lzDeclaredSize(rom, offset) > 1048576
    THEN lzError("Invalid decompressed size", FALSE)
  ELSE lzWhile(rom, g, lzDeclaredSize(rom, offset), U32Plus(offset, 4)[2], <<>>, FALSE)

decompressLZ77(rom, offset) == {lzRun(rom, offset, g) : g \in StrayBytes \cup {-1}}

(***************************************************************************)
(* GBAROReader::extractTile4bpp and GBAROReader::extractFont2bpp.  An      *)
(* image is [null, width, height, fill, px, oob, fault]: px holds the      *)
(* pixels setPixel has written, every other pixel holds fill, which is 0   *)
(* after fill(0) and -1 where the constructor left the memory as it was.   *)
(***************************************************************************)
TILE_SIZE_4BPP == 32

NoPixels == [p \in {} |-> 0]

\* QImage()
NullImage ==
  [null |-> TRUE, width |-> 0, height |-> 0, fill |-> 0, px |-> NoPixels,
   oob |-> FALSE, fault |-> FALSE]

\* QImage result(width, height, QImage::Format_Indexed8)
NewImage(width, height, fill) ==
  [null |-> width <= 0 \/ height <= 0, width |-> width, height |-> height,
   fill |-> fill, px |-> NoPixels, oob |-> FALSE, fault |-> FALSE]

\* low nibble = left pixel, high nibble = right pixel
Nibble(byte, x) == IF x % 2 = 0 THEN byte % 16 ELSE (byte \div 16) % 16

\* tileData[byteIndex] with tileData = romData + tileOffset
TileByte(rom, tileOffset, byteIndex, g) ==
  IF tileOffset[1] = 0 /\ tileOffset[2] + byteIndex < rom.size
    THEN At(rom, tileOffset[2] + byteIndex)
  ELSE g

\* the 8x8 tile, indexed by <<x, y>>
tile4bppToImage(rom, tileOffset, g) ==
  [p \in (0 .. 7) \X (0 .. 7) |->
     Nibble(TileByte(rom, tileOffset, p[2] * 4 + p[1] \div 2, g), p[1])]

\* line 389
TileSkipped(rom, tileOffset) ==
  U32Gt(U32Plus(tileOffset, TILE_SIZE_4BPP), RomSize(rom))

\* the tile read reaches outside m_romData
TileOutside(rom, tileOffset) ==
  tileOffset[1] # 0 \/ tileOffset[2] + TILE_SIZE_4BPP > rom.size

\* result.setPixel(tx * 8 + x, ty * 8 + y, tile.pixelIndex(x, y))
PlaceTile(tile, tx, ty) ==
  [p \in {<<tx * 8 + x, ty * 8 + y>> : x \in 0 .. 7, y \in 0 .. 7} |->
     tile[<<p[1] - tx * 8, p[2] - ty * 8>>]]

\* the loops over ty and tx, tileIndex = ty * tilesX + tx
RECURSIVE tileLoop(_, _, _, _, _, _, _)
tileLoop(rom, offset, g, tilesX, tilesY, tileIndex, image) ==
  IF tileIndex >= tilesX * tilesY THEN image
  ELSE IF TileSkipped(rom, U32Plus(offset, tileIndex * TILE_SIZE_4BPP))
    THEN tileLoop(rom, offset, g, tilesX, tilesY, tileIndex + 1, image)
  ELSE tileLoop(rom, offset, g, tilesX, tilesY, tileIndex + 1,
         [image EXCEPT
            !.px = PlaceTile(tile4bppToImage(rom, U32Plus(offset, tileIndex * TILE_SIZE_4BPP), g),
                             tileIndex % tilesX, tileIndex \div tilesX) @@ @,
            !.oob = @ \/ TileOutside(rom, U32Plus(offset, tileIndex * TILE_SIZE_4BPP))])

\* a read outside the buffer that faults ends the call without an image
Faulted(image, g) ==
  IF image.oob /\ g < 0 THEN [NullImage EXCEPT !.oob = TRUE, !.fault = TRUE] ELSE image

extractTile4bppWith(rom, offset, width, height, g) ==
  IF width % 8 # 0 \/ height % 8 # 0 THEN NullImage
  ELSE Faulted(tileLoop(rom, offset, g, width \div 8, height \div 8, 0,
                        NewImage(width, height, -1)), g)

extractTile4bpp(rom, offset, width, height) ==
  {extractTile4bppWith(rom, offset, width, height, g) : g \in StrayBytes \cup {-1}}

\* pixel k of the four in one byte: bits 6-7 are pixel 0, bits 0-1 pixel 3
TwoBits(raw, k) == (raw \div (4 ^ (3 - k))) % 4

\* the i at which the loop of a tile writes the pixel <<x, y>> of the tile:
\* yy = i / 2 = y and xx = 1 - i % 2 = x / 4
byteOfPixel(x, y) == 2 * y + (1 - x \div 4)

\* result[x][y], indexed by <<x, y>>: each pixel is written once, from the
\* byte tileStart + i of the tile yTile * tileColumns + xTile it lies in
decode2bppTiles(rom, offset, tileColumns, tileRows) ==
  [p \in (0 .. (tileColumns * 8 - 1)) \X (0 .. (tileRows * 8 - 1)) |->
     TwoBits(ByteRead(rom, U32Plus(offset, ((p[2] \div 8) * tileColumns + p[1] \div 8) * 16
                                            + byteOfPixel(p[1] % 8, p[2] % 8))),
             p[1] % 4)]

\* tileHeight, lines 537-545
fontTileHeight(numChars, charWidth, charHeight, sourceTileColumns) ==
  ((numChars * ((charWidth \div 8) * (charHeight \div 8) * 16)) \div 16) \div sourceTileColumns

\* remap color 3 to color 0
fontPixel(pixelVal) == IF pixelVal = 3 THEN 0 ELSE pixelVal

\* the pixels <<px, py>> of a character that the loops over py and px copy,
\* the character at <<srcX, srcY>> in the source and <<dstX, dstY>> in the output
fontCopied(lay, image, srcX, srcY, dstX, dstY) ==
  {q \in (0 .. (lay.charWidth - 1)) \X (0 .. (lay.charHeight - 1)) :
     /\ srcX + q[1] < lay.sourceWidth
     /\ srcY + q[2] < lay.sourceHeight
     /\ dstX + q[1] < image.width
     /\ dstY + q[2] < image.height}

\* result.setPixel(dstX, dstY, pixelVal) for the pixels of one character
fontChar(pixels, lay, image, srcX, srcY, dstX, dstY) ==
  [image EXCEPT !.px =
     [p \in {<<dstX + q[1], dstY + q[2]>> : q \in fontCopied(lay, image, srcX, srcY, dstX, dstY)} |->
        fontPixel(pixels[<<srcX + (p[1] - dstX), srcY + (p[2] - dstY)>>])] @@ @]

\* the loop over charPos
RECURSIVE fontLoop(_, _, _, _)
fontLoop(pixels, lay, charPos, image) ==
  IF charPos >= lay.numChars THEN image
  ELSE fontLoop(pixels, lay, charPos + 1,
         fontChar(pixels, lay, image,
                  (charPos % (lay.sourceWidth \div lay.charWidth)) * lay.charWidth,
                  (charPos \div (lay.sourceWidth \div lay.charWidth)) * lay.charHeight,
                  (charPos % 32) * lay.charWidth,
                  (charPos \div 32) * lay.charHeight))

\* charWidth >= 8, sourceTileColumns >= 1
extractFont2bpp(rom, versionIdentified, offset, numChars, charWidth, charHeight, sourceTileColumns) ==
  IF isEmpty(rom) \/ ~versionIdentified THEN NullImage
  ELSE fontLoop(decode2bppTiles(rom, offset, sourceTileColumns,
                                fontTileHeight(numChars, charWidth, charHeight, sourceTileColumns)),
                [sourceWidth |-> sourceTileColumns * 8,
                 sourceHeight |->
                   fontTileHeight(numChars, charWidth, charHeight, sourceTileColumns) * 8,
                 numChars |-> numChars, charWidth |-> charWidth, charHeight |-> charHeight],
                0,
                NewImage(32 * charWidth, ((numChars + 31) \div 32) * charHeight, 0))

(***************************************************************************)
(* GBAROReader: loadROM and the name tables.  A reader is the record of    *)
(* the members these functions use; a database version is the record of    *)
(* the fields loadROM copies for the name tables.  identifyRom looks the   *)
(* MD5 of the file up, which the model takes as a lookup by content.       *)
(***************************************************************************)
MIN_ROM_SIZE == 1048576

NoTable == [offset |-> 0, entrySize |-> 0, nameLength |-> 0, count |-> 0]

NoNames == [id \in {} |-> <<>>]

\* GBAROReader::GBAROReader()
NewReader ==
  [m_romData |-> EmptyBytes, m_versionIdentified |-> FALSE, m_versionName |-> "",
   m_hasNameTables |-> FALSE, m_itemTable |-> NoTable, m_pokemonTable |-> NoTable,
   m_moveTable |-> NoTable, m_itemNameCache |-> NoNames, m_pokemonNameCache |-> NoNames,
   m_moveNameCache |-> NoNames]

\* getGen3Charset().value(byte, ""): the character, or 0 for none
gen3Charset(byte) ==
  IF byte = 0 THEN 32
  ELSE IF byte >= 161 /\ byte <= 170 THEN 48 + (byte - 161)
  ELSE IF byte = 171 THEN 33
  ELSE IF byte = 172 THEN 63
  ELSE IF byte = 173 THEN 46
  ELSE IF byte = 174 THEN 45
  ELSE IF byte >= 187 /\ byte <= 212 THEN 65 + (byte - 187)
  ELSE IF byte >= 213 /\ byte <= 238 THEN 97 + (byte - 213)
  ELSE IF byte = 180 THEN 39
  ELSE IF byte = 184 THEN 44
  ELSE IF byte = 186 THEN 47
  ELSE IF byte = 240 THEN 58
  ELSE 0

\* QString::trimmed(), the space being the only white space of the charset
RECURSIVE trimmed(_)
trimmed(str) ==
  IF str = <<>> THEN str
  ELSE IF str[1] = 32 THEN trimmed(SubSeq(str, 2, Len(str)))
  ELSE IF str[Len(str)] = 32 THEN trimmed(SubSeq(str, 1, Len(str) - 1))
  ELSE str

\* the loop of decodeGen3String from index i on
RECURSIVE decodeGen3From(_, _, _)
decodeGen3From(data, i, result) ==
  IF i >= data.size \/ At(data, i) = 255 THEN result
  ELSE decodeGen3From(data, i + 1,
         IF gen3Charset(At(data, i)) # 0 THEN Append(result, gen3Charset(At(data, i)))
         ELSE result)

decodeGen3String(data) == trimmed(decodeGen3From(data, 0, <<>>))

\* QString::toUpper() on the characters of the charset
toUpper(str) == [i \in 1 .. Len(str) |-> IF str[i] >= 97 /\ str[i] <= 122 THEN str[i] - 32 ELSE str[i]]

NotSpaceNorDot(c) == c # 32 /\ c # 46

\* name.toUpper().replace(" ", "").replace(".", "")
itemFormat(name) == SelectSeq(toUpper(name), NotSpaceNorDot)

\* lines 184-204: the name tables of the version taken when it has them
takeNameTables(r, version) ==
  IF version.hasNameTables
    THEN [r EXCEPT !.m_hasNameTables = TRUE,
                   !.m_itemTable = version.itemTable,
                   !.m_pokemonTable = [version.pokemonTable EXCEPT !.nameLength = 0],
                   !.m_moveTable = [version.moveTable EXCEPT !.nameLength = 0]]
  ELSE r

\* lines 112-226, the file read and valid: version is what identifyRom returned
loadIdentified(r, databaseLoaded, version) ==
  IF ~databaseLoaded
    THEN [obj |-> [r EXCEPT !.m_romData = EmptyBytes], ret |-> FALSE,
          err |-> "ROM database not available for version identification"]
  ELSE IF version.name = ""
    THEN [obj |-> [r EXCEPT !.m_romData = EmptyBytes], ret |-> FALSE, err |-> "Unknown ROM"]
  ELSE [obj |-> takeNameTables([r EXCEPT !.m_versionIdentified = TRUE,
                                         !.m_versionName = version.name], version),
        ret |-> TRUE, err |-> ""]

\* loadROM(path, database, errorMessage): file is what the file system holds
\* at path, version what the database has for its MD5
loadROM(r, file, databaseLoaded, version) ==
  IF ~file.opens THEN [obj |-> r, ret |-> FALSE, err |-> "Could not open ROM file"]
  ELSE IF file.data.size < MIN_ROM_SIZE
    THEN [obj |-> [r EXCEPT !.m_romData = EmptyBytes], ret |-> FALSE,
          err |-> "Invalid GBA ROM file"]
  ELSE loadIdentified([r EXCEPT !.m_romData = file.data], databaseLoaded, version)

\* decodeGen3String(m_romData.mid(offset, length)) for the entry of id
entryName(romData, table, id, length) ==
  decodeGen3String(Mid(romData, table.offset + id * table.entrySize, length))

\* the cache with the name of id put in
cached(cache, id, name) == [i \in DOMAIN cache \cup {id} |-> IF i = id THEN name ELSE cache[i]]

\* the body the three lookups share: the table and cache of the kind, the
\* length read and the name that the bytes of the entry give.  The cache
\* after the call and the name returned.
lookupName(r, table, cache, id, length, name) ==
  IF ~r.m_hasNameTables \/ id >= table.count % 65536 THEN [cache |-> cache, ret |-> <<>>]
  ELSE IF id \in DOMAIN cache THEN [cache |-> cache, ret |-> cache[id]]
  ELSE IF table.offset + id * table.entrySize + length > r.m_romData.size
    THEN [cache |-> cache, ret |-> <<>>]
  ELSE [cache |-> cached(cache, id, name), ret |-> name]

itemLooked(r, l) == [obj |-> [r EXCEPT !.m_itemNameCache = l.cache], ret |-> l.ret]

getItemName(r, id) ==
  itemLooked(r, lookupName(r, r.m_itemTable, r.m_itemNameCache, id, r.m_itemTable.nameLength,
                           itemFormat(entryName(r.m_romData, r.m_itemTable, id,
                                                r.m_itemTable.nameLength))))

pokemonLooked(r, l) == [obj |-> [r EXCEPT !.m_pokemonNameCache = l.cache], ret |-> l.ret]

getPokemonName(r, id) ==
  pokemonLooked(r, lookupName(r, r.m_pokemonTable, r.m_pokemonNameCache, id,
                              r.m_pokemonTable.entrySize,
                              entryName(r.m_romData, r.m_pokemonTable, id,
                                        r.m_pokemonTable.entrySize)))

moveLooked(r, l) == [obj |-> [r EXCEPT !.m_moveNameCache = l.cache], ret |-> l.ret]

getMoveName(r, id) ==
  moveLooked(r, lookupName(r, r.m_moveTable, r.m_moveNameCache, id, r.m_moveTable.entrySize,
                           entryName(r.m_romData, r.m_moveTable, id, r.m_moveTable.entrySize)))

(***************************************************************************)
(* ScriptDisassembler.  A uint32 argument is a pair <<high 16, low 16>>,   *)
(* a command table a function from the opcodes it defines to CommandDef    *)
(* records whose args is the sequence of the format characters.            *)
(***************************************************************************)
\* a - b on uint32
U32Minus(a, b) ==
  <<(a[1] - b[1] - (IF a[2] < b[2] THEN 1 ELSE 0)) % 65536, (a[2] - b[2]) % 65536>>

WordFormats == {"w", "i", "p", "M", "v", "f"}

\* one more argument of type c and value val read, pos moved by n
argRead(acc, c, val, n) ==
  [args |-> Append(acc.args, val), types |-> Append(acc.types, c), pos |-> acc.pos + n]

\* the body of the loop of parseArguments for the format character c
parseChar(data, c, acc) ==
  IF c = "b" THEN argRead(acc, "b", <<0, At(data, acc.pos)>>, 1)
  ELSE IF c \in WordFormats
    THEN IF acc.pos + 1 < data.size THEN argRead(acc, c, <<0, ReadU16(data, acc.pos)>>, 2)
         ELSE acc
  ELSE IF c = "d"
    THEN IF acc.pos + 3 < data.size THEN argRead(acc, "d", ReadU32(data, acc.pos), 4)
         ELSE acc
  ELSE acc

\* the loop of parseArguments from the k-th character of fmt on
RECURSIVE parseFrom(_, _, _, _)
parseFrom(data, fmt, k, acc) ==
  IF k > Len(fmt) \/ acc.pos >= data.size THEN acc
  ELSE parseFrom(data, fmt, k + 1, parseChar(data, fmt[k], acc))

parsedLength(acc, offset) == [args |-> acc.args, types |-> acc.types, len |-> acc.pos - offset]

\* parseArguments(data, offset, fmt, args, types): args, types and the
\* number of bytes consumed
parseArguments(data, offset, fmt) ==
  parsedLength(parseFrom(data, fmt, 1, [args |-> <<>>, types |-> <<>>, pos |-> offset]), offset)

ROM_WINDOW_START == <<2048, 0>>

RECURSIVE inferFrom(_, _, _)
\* lines 594-602: the command at offset with its arguments p parsed
inferStep(commands, data, offset, p) ==
  IF At(data, offset) = 184 /\ p.args # <<>> /\ U32Ge(p.args[1], ROM_WINDOW_START)
    THEN U32Minus(p.args[1], <<0, offset>>)
  ELSE inferFrom(commands, data, offset + 1 + p.len)

\* the loop of inferBaseAddress from offset on: the value of m_inferredBase
inferFrom(commands, data, offset) ==
  IF offset >= data.size \/ At(data, offset) = 2 THEN U32Zero
  ELSE IF At(data, offset) \in DOMAIN commands
    THEN inferStep(commands, data, offset,
                   parseArguments(data, offset + 1, commands[At(data, offset)].args))
  ELSE inferFrom(commands, data, offset + 1)

inferBaseAddress(commands, data) == inferFrom(commands, data, 0)

NoJumpTarget == -1

\* target < data.size(): the target as an offset, or none
targetInside(target, size) == IF target[1] = 0 /\ target[2] < size THEN target[2] ELSE NoJumpTarget

\* lines 549-553: the offset a virtual address stands for, or none
virtualTarget(vaddr, base, size) ==
  IF base # U32Zero /\ U32Ge(vaddr, base) THEN targetInside(U32Minus(vaddr, base), size)
  ELSE NoJumpTarget

\* lines 540-572: the offset the command labels, or none
jumpTarget(opcode, args, base, size) ==
  IF opcode \in {4, 5} /\ args # <<>> THEN targetInside(args[Len(args)], size)
  ELSE IF opcode \in {185, 186} /\ args # <<>> THEN virtualTarget(args[Len(args)], base, size)
  ELSE IF opcode \in {6, 7} /\ Len(args) >= 2 THEN targetInside(args[Len(args)], size)
  ELSE IF opcode \in {187, 188} /\ Len(args) >= 2
    THEN virtualTarget(args[Len(args)], base, size)
  ELSE NoJumpTarget

\* a label recorded for every target met, met before or not
labelAddedAgain(st, target) ==
  IF target # NoJumpTarget
    THEN [labels |-> [t \in DOMAIN st.labels \cup {target} |->
                        IF t = target THEN <<"label_", st.labelCount>> ELSE st.labels[t]],
          labelCount |-> st.labelCount + 1]
  ELSE st

\* m_labels[target] = QString("label_%1").arg(labelCount++) when the target
\* is new
labelAdded(st, target) ==
  IF target # NoJumpTarget /\ target \notin DOMAIN st.labels
    THEN [labels |-> [t \in DOMAIN st.labels \cup {target} |->
                        IF t = target THEN <<"label_", st.labelCount>> ELSE st.labels[t]],
          labelCount |-> st.labelCount + 1]
  ELSE st

NoLabels == [t \in {} |-> <<>>]

\* the loop of findJumpTargets from offset on: m_labels
RECURSIVE labelsFrom(_, _, _, _, _)
labelsStep(commands, data, base, offset, st, p) ==
  labelsFrom(commands, data, base, offset + 1 + p.len,
             labelAdded(st, jumpTarget(At(data, offset), p.args, base, data.size)))

labelsFrom(commands, data, base, offset, st) ==
  IF offset >= data.size \/ At(data, offset) = 2 THEN st.labels
  ELSE IF At(data, offset) \in DOMAIN commands
    THEN labelsStep(commands, data, base, offset, st,
                    parseArguments(data, offset + 1, commands[At(data, offset)].args))
  ELSE labelsFrom(commands, data, base, offset + 1, st)

findJumpTargets(commands, data, base) ==
  labelsFrom(commands, data, base, 0, [labels |-> NoLabels, labelCount |-> 0])

\* ScriptDisassembler::ScriptDisassembler() with the command definitions and
\* the flag names of the symbol files loaded; the tables of conditions,
\* standard scripts, variables, specials and placeholders are empty and no
\* ROM reader is set
NewDisassembler(commands, flags) ==
  [m_commands |-> commands, m_flags |-> flags, m_labels |-> NoLabels, m_instructions |-> <<>>,
   m_scriptData |-> EmptyBytes, m_inferredBase |-> U32Zero, m_flagsFound |-> {},
   m_flagsUnknown |-> {}]

\* the keys of m_gen3Charset that stand for a character; a character of a
\* decoded string is the key it came from
Gen3Printable ==
  (0 .. 9) \cup (11 .. 23) \cup (25 .. 30) \cup (32 .. 43) \cup {45, 46, 53, 54, 81, 82}
  \cup (90 .. 93) \cup {104, 111} \cup (161 .. 174) \cup (176 .. 246)

NewLine == 10

\* lines 646-653: what the byte adds to the result
gen3Char(byte) ==
  IF byte = 254 \/ byte = 250 THEN <<NewLine>>
  ELSE IF byte = 251 THEN <<NewLine, NewLine>>
  ELSE IF byte \in Gen3Printable THEN <<byte>>
  ELSE <<>>

\* the loop of decodeGen3String(data, offset, maxLen) from i on; the
\* placeholder {VAR_id} is the number 256 + id
RECURSIVE decodeScriptFrom(_, _, _, _)
decodeScriptFrom(data, i, end, result) ==
  IF i >= end \/ At(data, i) = 255 THEN result
  ELSE IF At(data, i) = 253 /\ i + 1 < end
    THEN decodeScriptFrom(data, i + 2, end, Append(result, 256 + At(data, i + 1)))
  ELSE IF At(data, i) = 252 /\ i + 1 < end THEN decodeScriptFrom(data, i + 2, end, result)
  ELSE decodeScriptFrom(data, i + 1, end, result \o gen3Char(At(data, i)))

MAX_STRING_LEN == 200

\* ScriptDisassembler::decodeGen3String(data, offset, maxLen = 200)
decodeScriptString(data, offset) ==
  decodeScriptFrom(data, offset,
                   IF offset + MAX_STRING_LEN < data.size THEN offset + MAX_STRING_LEN
                   ELSE data.size, <<>>)

\* int offset = vaddr - m_inferredBase, the difference d taken as an int,
\* is inside the script
offsetInside(d, size) == d[1] = 0 /\ d[2] < size

readEmbeddedString(o, vaddr) ==
  IF o.m_inferredBase = U32Zero \/ isEmpty(o.m_scriptData) THEN <<>>
  ELSE IF ~offsetInside(U32Minus(vaddr, o.m_inferredBase), o.m_scriptData.size) THEN <<>>
  ELSE decodeScriptString(o.m_scriptData, U32Minus(vaddr, o.m_inferredBase)[2])

\* text.left(50).replace("\n", " ").trimmed() [+ "..."]
preview(text) ==
  trimmed([i \in 1 .. (IF Len(text) > 50 THEN 50 ELSE Len(text)) |->
             IF text[i] = NewLine THEN 32 ELSE text[i]])
  \o (IF Len(text) > 50 THEN <<46, 46, 46>> ELSE <<>>)

\* the extras generateComment adds to the description of the command
commentExtras(o, opcode, args) ==
  IF opcode \in {6, 7, 187, 188} /\ args # <<>> THEN <<<<"Condition", args[1][2] % 256>>>>
  ELSE IF opcode \in {41, 42, 43} /\ args # <<>> /\ args[1][2] \in DOMAIN o.m_flags
    THEN <<<<"Flag", o.m_flags[args[1][2]]>>>>
  ELSE IF opcode = 189 /\ args # <<>> /\ o.m_inferredBase # U32Zero
          /\ readEmbeddedString(o, args[1]) # <<>>
    THEN <<<<"Text", preview(readEmbeddedString(o, args[1]))>>,
           <<"offset", U32Minus(args[1], o.m_inferredBase)>>>>
  ELSE IF opcode = 184 THEN <<<<"IMPORTANT">>>>
  ELSE <<>>

\* generateComment(opcode, name, args, types): the comment
generateComment(o, opcode, args) ==
  [desc |-> o.m_commands[opcode].desc, extras |-> commentExtras(o, opcode, args)]

\* the flags generateComment records in m_flagsFound and m_flagsUnknown
flagsTracked(o, opcode, args) ==
  IF opcode \in {41, 42, 43} /\ args # <<>>
    THEN IF args[1][2] \in DOMAIN o.m_flags
           THEN [o EXCEPT !.m_flagsFound = @ \cup {args[1][2]}]
         ELSE [o EXCEPT !.m_flagsUnknown = @ \cup {args[1][2]}]
  ELSE o

\* m_labels.value(offset, "")
labelAt(o, offset) == IF offset \in DOMAIN o.m_labels THEN o.m_labels[offset] ELSE <<>>

\* m_instructions.append(instr)
appended(o, instr) == [o EXCEPT !.m_instructions = Append(@, instr)]

\* lines 721-726
endInstruction(o, data, offset) ==
  [offset |-> offset, opcode |-> 2, name |-> "end", args |-> <<>>, argTypes |-> <<>>,
   rawBytes |-> Mid(data, offset, 1), comment |-> [desc |-> "Terminates script execution",
                                                    extras |-> <<>>],
   label |-> labelAt(o, offset)]

\* lines 729-737
knownInstruction(o, data, offset, p) ==
  [offset |-> offset, opcode |-> At(data, offset), name |-> o.m_commands[At(data, offset)].name,
   args |-> p.args, argTypes |-> p.types, rawBytes |-> Mid(data, offset, 1 + p.len),
   comment |-> generateComment(o, At(data, offset), p.args), label |-> labelAt(o, offset)]

\* lines 740-746
unknownInstruction(o, data, offset) ==
  [offset |-> offset, opcode |-> At(data, offset), name |-> "db",
   args |-> <<<<0, At(data, offset)>>>>, argTypes |-> <<"b">>,
   rawBytes |-> Mid(data, offset, 1),
   comment |-> [desc |-> "Unknown opcode", extras |-> <<At(data, offset)>>],
   label |-> labelAt(o, offset)]

\* the first pass of disassemble from offset on: the disassembler with
\* m_instructions filled
RECURSIVE decodeWalk(_, _, _)
\* a walk that steps over the opcode only
decodeKnownByOne(o, data, offset, p) ==
  decodeWalk(appended(flagsTracked(o, At(data, offset), p.args),
                      knownInstruction(o, data, offset, p)),
             data, offset + 1)

decodeKnown(o, data, offset, p) ==
  decodeWalk(appended(flagsTracked(o, At(data, offset), p.args),
                      knownInstruction(o, data, offset, p)),
             data, offset + 1 + p.len)

decodeWalk(o, data, offset) ==
  IF offset >= data.size THEN o
  ELSE IF At(data, offset) = 2 THEN appended(o, endInstruction(o, data, offset))
  ELSE IF At(data, offset) \in DOMAIN o.m_commands
    THEN decodeKnown(o, data, offset,
                     parseArguments(data, offset + 1, o.m_commands[At(data, offset)].args))
  ELSE decodeWalk(appended(o, unknownInstruction(o, data, offset)), data, offset + 1)

ConditionalJumps == {6, 7, 187, 188}

\* formatArg(value, type, argIndex, opcode): the form the argument is
\* written in (a flag name when m_flags has one) and the value written
formatArg(o, value, type, argIndex, opcode) ==
  IF type = "b"
    THEN IF opcode \in ConditionalJumps /\ argIndex = 0 THEN [form |-> "0x%02x", value |-> value]
         ELSE IF opcode \in {8, 9, 10, 11} /\ argIndex = 0
           THEN [form |-> "STD_%d", value |-> value]
         ELSE [form |-> "%d", value |-> value]
  ELSE IF type = "v"
    THEN IF value[2] >= 16384 THEN [form |-> "VAR_0x%04x", value |-> value]
         ELSE [form |-> "%d", value |-> value]
  ELSE IF type = "f"
    THEN IF value[2] \in DOMAIN o.m_flags THEN [form |-> o.m_flags[value[2]], value |-> value]
         ELSE [form |-> "FLAG_0x%04X", value |-> value]
  ELSE IF type = "i" THEN [form |-> "ITEM_0X%04X", value |-> value]
  ELSE IF type = "p" THEN [form |-> "SPECIES_%d", value |-> value]
  ELSE IF type = "M" THEN [form |-> "MOVE_%d", value |-> value]
  ELSE IF type = "w"
    THEN IF \/ opcode \in {68, 69, 70, 71, 73, 74} /\ argIndex = 1
            \/ opcode = 26 /\ argIndex = 1 /\ value[2] < 16384
            \/ opcode \in {33, 28, 31} /\ argIndex = 1 /\ value[2] <= 255
           THEN [form |-> "%d", value |-> value]
         ELSE [form |-> "0x%04x", value |-> value]
  ELSE IF type = "d" THEN [form |-> "0x%08x", value |-> value]
  ELSE [form |-> "%d", value |-> value]

\* lines 793-825: the line of an instruction, with its label line
outputLine(o, instr, showComments, showBytes, showOffsets) ==
  [label |-> instr.label,
   offset |-> IF showOffsets THEN <<instr.offset>> ELSE <<>>,
   bytes |-> IF showBytes THEN Mid(instr.rawBytes, 0, 8) ELSE EmptyBytes,
   name |-> instr.name,
   args |-> [i \in 1 .. Len(instr.args) |->
               formatArg(o, instr.args[i], instr.argTypes[i], i - 1, instr.opcode)],
   comment |-> IF showComments THEN <<instr.comment>> ELSE <<>>]

\* the strings in ascending order of offset
RECURSIVE sortedByOffset(_)
sortedByOffset(strings) ==
  IF strings = {} THEN <<>>
  ELSE <<CHOOSE s \in strings : \A t \in strings : s.offset <= t.offset>>
       \o sortedByOffset(strings \ {CHOOSE s \in strings : \A t \in strings : s.offset <= t.offset})

\* the addresses of the vmessage instructions
vmessageAddresses(o) ==
  {o.m_instructions[i].args[1] :
     i \in {j \in 1 .. Len(o.m_instructions) :
              o.m_instructions[j].opcode = 189 /\ o.m_instructions[j].args # <<>>}}

findEmbeddedStrings(o) ==
  sortedByOffset({[vaddr |-> a, offset |-> U32Minus(a, o.m_inferredBase)[2],
                   text |-> readEmbeddedString(o, a)] :
                    a \in {b \in vmessageAddresses(o) : readEmbeddedString(o, b) # <<>>}})

\* lines 751-856: the text of the disassembly, line by line
outputOf(o, showComments, showBytes, showOffsets) ==
  [error |-> "",
   base |-> IF o.m_inferredBase # U32Zero THEN <<o.m_inferredBase>> ELSE <<>>,
   total |-> Len(o.m_instructions),
   labels |-> Cardinality(DOMAIN o.m_labels),
   flagsResolved |-> Cardinality(o.m_flagsFound),
   unknownFlags |-> Cardinality(o.m_flagsUnknown),
   lines |-> [i \in 1 .. Len(o.m_instructions) |->
                outputLine(o, o.m_instructions[i], showComments, showBytes, showOffsets)],
   strings |-> IF o.m_inferredBase # U32Zero /\ ~isEmpty(o.m_scriptData)
                 THEN findEmbeddedStrings(o)
               ELSE <<>>]

NotLoadedText ==
  [error |-> "; ERROR: Command definitions not loaded", base |-> <<>>, total |-> 0,
   labels |-> 0, flagsResolved |-> 0, unknownFlags |-> 0, lines |-> <<>>, strings |-> <<>>]

\* the script taken and nothing cleared
clearedNothing(o, data) == [o EXCEPT !.m_scriptData = data]

\* lines 701-704
cleared(o, data) ==
  [o EXCEPT !.m_instructions = <<>>, !.m_scriptData = data, !.m_flagsFound = {},
            !.m_flagsUnknown = {}]

\* line 707
based(o, data) == [o EXCEPT !.m_inferredBase = inferBaseAddress(o.m_commands, data)]

\* line 709
labelled(o, data) ==
  [o EXCEPT !.m_labels = findJumpTargets(o.m_commands, data, o.m_inferredBase)]

rendered(o, showComments, showBytes, showOffsets) ==
  [obj |-> o, ret |-> outputOf(o, showComments, showBytes, showOffsets)]

\* disassemble(data, showComments, showBytes, showOffsets): the disassembler
\* after the call and the text returned
disassemble(o, data, showComments, showBytes, showOffsets) ==
  IF DOMAIN o.m_commands = {} THEN [obj |-> o, ret |-> NotLoadedText]
  ELSE rendered(decodeWalk(labelled(based(cleared(o, data), data), data), data, 0),
                showComments, showBytes, showOffsets)

(***************************************************************************)
(* Inputs: the files given to loadFromFile and the arguments given to      *)
(* injectWonderCard.  A file is named by the record that describes it.     *)
(***************************************************************************)
\* the array of size n holding the bytes given as <<offset, value>> pairs
BytesOf(n, pairs) ==
  [size |-> n,
   nz |-> [o \in {p[1] : p \in {q \in pairs : q[2] # 0}}
             |-> (CHOOSE p \in pairs : p[1] = o)[2]]]

LE16(o, v) == {<<o, v % 256>>, <<o + 1, v \div 256>>}

LE32(o, w) == LE16(o, w[2]) \cup LE16(o + 2, w[1])

\* game code and security key as each game family stores them
GameCodeOf(game) ==
  CASE game = "FRLG" -> <<U32One, <<0, 0>>>>
    [] game = "EM" -> <<<<4660, 22136>>, <<4660, 22136>>>>
    [] game = "RS" -> <<U32Zero, U32Zero>>
    [] OTHER -> <<<<0, 2>>, U32Zero>>

GiftOffsetsOf(game) ==
  IF game = "EM"
    THEN [card |-> WONDERCARD_OFFSET_EMERALD, meta |-> WCMETADATA_OFFSET_EMERALD,
          ids |-> TRAINERIDS_OFFSET_EMERALD, script |-> GMSCRIPT_OFFSET_EMERALD,
          flag |-> MYSTERY_GIFT_OFFSET_EMERALD, bit |-> MYSTERY_GIFT_BIT_EMERALD]
  ELSE [card |-> WONDERCARD_OFFSET_FRLG, meta |-> WCMETADATA_OFFSET_FRLG,
        ids |-> TRAINERIDS_OFFSET_FRLG, script |-> GMSCRIPT_OFFSET_FRLG,
        flag |-> MYSTERY_GIFT_OFFSET_FRLG, bit |-> MYSTERY_GIFT_BIT_FRLG]

\* logical id stored at physical position pos of a slot rotated by rot
IdAt(f, pos) == (pos + f.rot) % SECTIONS_PER_SAVE

\* the gift section's previous content and, in the slots of f.tail, two bytes
\* past the data the games keep in it (offsets 0xEEC and 0xF10)
GiftPairs(f, slot, base, g) ==
  {<<base + g.card, 17>>, <<base + g.card + 2, 99>>, <<base + g.card + 335, 200>>,
   <<base + g.meta - 4, 21>>, <<base + g.meta, 9>>, <<base + g.meta + 6, 119>>,
   <<base + g.meta + 7, 1>>, <<base + g.meta + 31, 5>>,
   <<base + g.ids, 33>>, <<base + g.ids + 39, 34>>,
   <<base + g.script, 65>>, <<base + g.script + 2, 98>>,
   <<base + g.script + 4, 51>>, <<base + g.script + 1003, 3>>}
  \cup (IF slot \in f.tail THEN {<<base + 3820, 64>>, <<base + 3856, 128>>} ELSE {})

\* the bytes of the section with logical id `id` at `base`, footer checksum excluded
SectionBytes(f, slot, base, id, g) ==
  LE16(base + SECTION_ID_OFFSET, id)
  \cup LE32(base + SAVE_INDEX_OFFSET, f.ctr[slot + 1])
  \cup {<<base + 16, 1 + id + slot>>}
  \cup (IF id = 0 THEN LE32(base + GAME_CODE_OFFSET, GameCodeOf(f.game)[1])
                       \cup LE32(base + GAME_CODE_OFFSET + 4, GameCodeOf(f.game)[2])
        ELSE {})
  \cup (IF id = 2 THEN {<<base + g.flag, (IF f.flag THEN g.bit ELSE 0) + 1>>} ELSE {})
  \cup (IF id = 4 THEN GiftPairs(f, slot, base, g) ELSE {})

SectionPairs(f, slot, pos) ==
  SectionBytes(f, slot, slot * SlotSize + pos * SECTION_SIZE, IdAt(f, pos),
               GiftOffsetsOf(f.game))

GameNamed(game) ==
  CASE game = "FRLG" -> "FireRedLeafGreen"
    [] game = "EM" -> "Emerald"
    [] game = "RS" -> "RubySapphire"
    [] OTHER -> "Unknown"

\* length over which the file's writer summed the section with logical id `id`:
\* the section's own length, or the default length for every section
WriterLength(f, id) ==
  IF f.rule = "own"
    THEN getSectionChecksumLength([m_detectedGame |-> GameNamed(f.game)], id)
  ELSE CHECKSUM_DATA_LENGTH_DEFAULT

SlotPositions == {0, 1} \X Sections

\* the checksum the writer stored: off by one in section 2 of the slots of f.bad
StoredSum(f, slot, id, c) == IF slot \in f.bad /\ id = 2 THEN (c + 1) % 65536 ELSE c

SumPairs(f, body, slot, pos) ==
  LE16(slot * SlotSize + pos * SECTION_SIZE + CHECKSUM_OFFSET,
       StoredSum(f, slot, IdAt(f, pos),
                 computeSectionChecksum(body, slot * SlotSize + pos * SECTION_SIZE,
                                        WriterLength(f, IdAt(f, pos)))))

BodyPairs(f) == UNION {SectionPairs(f, sp[1], sp[2]) : sp \in SlotPositions}

Stamped(f, body) ==
  BytesOf(EXPECTED_FILE_SIZE,
          BodyPairs(f) \cup UNION {SumPairs(f, body, sp[1], sp[2]) : sp \in SlotPositions})

\* one byte of `whole` changed after the checksums were stored:
\* hit = <<section position in slot A, offset in the section, amount added>>
ApplyHit(whole, hit) ==
  IF hit = <<>> THEN whole
  ELSE Poke(whole, hit[1] * SECTION_SIZE + hit[2],
            (At(whole, hit[1] * SECTION_SIZE + hit[2]) + hit[3]) % 256)

\* the save image of f
SaveImage(f) == ApplyHit(Stamped(f, BytesOf(EXPECTED_FILE_SIZE, BodyPairs(f))), f.hit)

\* what the file system holds at path f
FileAt(f) ==
  CASE f.kind = "missing" -> [exists |-> FALSE, opens |-> FALSE, data |-> EmptyBytes]
    [] f.kind = "locked" -> [exists |-> TRUE, opens |-> FALSE, data |-> EmptyBytes]
    [] f.kind = "sized" -> [exists |-> TRUE, opens |-> TRUE,
                            data |-> BytesOf(f.size, IF f.size > 0 THEN {<<0, 1>>} ELSE {})]
    [] OTHER -> [exists |-> TRUE, opens |-> TRUE, data |-> SaveImage(f)]

SaveNamed(game, rot, ctr, bad, flag, rule, tail, hit) ==
  [kind |-> "save", game |-> game, rot |-> rot, ctr |-> ctr, bad |-> bad, flag |-> flag,
   rule |-> rule, tail |-> tail, hit |-> hit]

Sized(n) == [kind |-> "sized", size |-> n]

\* save counters of <<slot A, slot B>>
CtrPairs ==
  {<<<<0, 5>>, <<0, 6>>>>, <<<<0, 6>>, <<0, 5>>>>, <<<<0, 5>>, <<0, 5>>>>,
   <<<<1, 0>>, <<0, 65535>>>>}

AHigher == <<<<0, 6>>, <<0, 5>>>>

BHigher == <<<<0, 5>>, <<0, 6>>>>

\* one changed byte of slot A
Hits == {<<0, 0, 1>>, <<4, 3, 128>>, <<13, 1999, 255>>}

\* one changed byte of a footer id of slot A: section 4 renumbered 104, section 2
\* renumbered 102, and section 4 renumbered 0x0104 (low byte still the marker)
IdHits == {<<4, 4084, 100>>, <<2, 4084, 100>>, <<4, 4085, 1>>}

Files ==
  {[kind |-> "missing"], [kind |-> "locked"], Sized(0), Sized(131071), Sized(131073)}
  \cup {SaveNamed("FRLG", 0, c, b, FALSE, "default", {}, <<>>) :
          c \in CtrPairs, b \in SUBSET {0, 1}}
  \cup {SaveNamed(g, 3, AHigher, {}, FALSE, "default", {}, <<>>) : g \in {"EM", "RS", "UNK"}}
  \cup {SaveNamed(g, 3, BHigher, b, TRUE, "default", {}, <<>>) :
          g \in {"FRLG", "EM"}, b \in {{}, {0, 1}}}
  \cup {SaveNamed(g, 0, AHigher, {}, FALSE, "own", t, <<>>) :
          g \in {"FRLG", "EM"}, t \in {{0}, {0, 1}}}
  \cup {SaveNamed("FRLG", 0, BHigher, {}, FALSE, "default", {0, 1}, <<>>)}
  \cup {SaveNamed("FRLG", 0, c, {}, FALSE, "default", {}, h) : c \in CtrPairs, h \in Hits}
  \cup {SaveNamed("FRLG", 0, AHigher, {}, FALSE, "own", {1}, <<4, 3, 128>>)}
  \cup {SaveNamed("FRLG", 0, AHigher, {}, FALSE, "default", {}, h) : h \in IdHits}

(***************************************************************************)
(* Arguments of injectWonderCard                                           *)
(***************************************************************************)
RawCards ==
  [none |-> EmptyBytes,
   r332 |-> BytesOf(332, {<<0, 233>>, <<1, 3>>, <<2, 130>>, <<3, 1>>, <<8, 69>>,
                          <<10, 206>>, <<11, 191>>, <<12, 205>>, <<13, 206>>,
                          <<331, 7>>}),
   r336 |-> BytesOf(336, {<<0, 170>>, <<1, 187>>, <<2, 1>>, <<3, 2>>,
                          <<4, 1>>, <<6, 255>>, <<7, 255>>, <<14, 187>>, <<335, 9>>}),
   r100 |-> BytesOf(100, {<<2, 44>>, <<3, 45>>, <<99, 1>>})]

Records ==
  [a |-> [eventId |-> 7, icon |-> 277, count |-> <<1, 2>>, typeColorResend |-> 69,
          stampMax |-> 3, title |-> <<65, 98, 32, 49>>, subtitle |-> <<>>,
          contentLine1 |-> <<80>>, contentLine2 |-> <<>>, contentLine3 |-> <<>>,
          contentLine4 |-> <<>>, warningLine1 |-> <<>>, warningLine2 |-> <<33>>],
   b |-> [eventId |-> 0, icon |-> 0, count |-> <<0, 0>>, typeColorResend |-> 0,
          stampMax |-> 0, title |-> <<>>, subtitle |-> <<>>,
          contentLine1 |-> <<>>, contentLine2 |-> <<>>, contentLine3 |-> <<>>,
          contentLine4 |-> <<>>, warningLine1 |-> <<>>, warningLine2 |-> <<>>]]

Scripts ==
  [none |-> EmptyBytes,
   s1000 |-> BytesOf(1000, {<<0, 51>>, <<1, 255>>, <<2, 255>>, <<4, 2>>, <<999, 8>>}),
   s1000n |-> BytesOf(1000, {<<0, 153>>, <<1, 4>>, <<500, 6>>}),
   s1004 |-> BytesOf(1004, {<<0, 18>>, <<1, 52>>, <<3, 1>>, <<5, 255>>, <<1003, 2>>}),
   s10 |-> BytesOf(10, {<<0, 51>>, <<9, 1>>})]

\* a 512-byte table (entry i = 4129 * i + 7 mod 2^16) and one of the wrong size
CrcTables ==
  [ok |-> BytesOf(512, UNION {LE16(2 * i, (4129 * i + 7) % 65536) : i \in 0 .. 255}),
   short |-> BytesOf(256, UNION {LE16(2 * i, (4129 * i + 7) % 65536) : i \in 0 .. 127})]

InjectArgs(raw, rec, script, table, cm, ct) ==
  [raw |-> raw, rec |-> rec, script |-> script, table |-> table,
   clearMetadata |-> cm, clearTrainerIds |-> ct]

NoArgs == InjectArgs("none", "a", "none", "ok", FALSE, FALSE)

\* the calls of the life-cycle specification
InjectCalls ==
  {InjectArgs("r332", "a", "s1000n", "ok", TRUE, FALSE),
   InjectArgs("none", "a", "none", "ok", FALSE, TRUE),
   InjectArgs("r336", "b", "none", "short", TRUE, TRUE)}

\* the calls of the injection specification
InjectCallsWide ==
  {InjectArgs(raw, rec, "none", "ok", cm, cm) :
     raw \in {"none", "r332", "r336", "r100"}, rec \in {"a", "b"}, cm \in BOOLEAN}
  \cup {InjectArgs("r332", "a", sc, "ok", cm, ~cm) :
          sc \in {"s1000", "s1000n", "s1004", "s10"}, cm \in BOOLEAN}
  \cup {InjectArgs(raw, "b", "s1004", "short", TRUE, FALSE) : raw \in {"none", "r336"}}

InjectFiles ==
  {SaveNamed(g, 3, BHigher, {}, TRUE, "default", {}, <<>>) : g \in {"FRLG", "EM"}}
  \cup {SaveNamed(g, 0, AHigher, {}, FALSE, "default", {0, 1}, <<>>) : g \in {"FRLG", "EM"}}
  \cup {SaveNamed("RS", 0, AHigher, {}, FALSE, "default", {}, <<>>), Sized(7)}

(***************************************************************************)
(* The state machine.  disk is the file system, by file name; sf is the    *)
(* SaveFile object; call describes the last completed call (with `pre`,    *)
(* the object it was made on); nOps counts the calls made; ck is the       *)
(* state of the checksum specification; fn is the state of the codec and   *)
(* ROM reader specifications.                                              *)
(***************************************************************************)
MaxOps == 2

NoCk == [data |-> EmptyBytes, length |-> 0, out |-> -1]

NoDisk == [f \in {} |-> 0]

NoFn == [op |-> "none"]

NoCall ==
  [op |-> "new", file |-> NoPath, args |-> NoArgs, ret |-> FALSE, err |-> "",
   log |-> <<>>, pre |-> NewSaveFile]

Init ==
  /\ disk = [f \in Files |-> FileAt(f)]
  /\ sf = NewSaveFile
  /\ call = NoCall
  /\ nOps = 0
  /\ ck = NoCk
  /\ fn = NoFn

\* a call `op` returning r
Step(op, file, args, r) ==
  /\ sf' = r.obj
  /\ call' = [op |-> op, file |-> file, args |-> args, ret |-> r.ret, err |-> r.err,
              log |-> r.log, pre |-> sf]
  /\ nOps' = nOps + 1
  /\ UNCHANGED <<disk, ck, fn>>

Load(f) ==
  /\ nOps < MaxOps
  /\ Step("loadFromFile", f, NoArgs, loadFromFile(sf, f, disk[f]))

Inject(a) ==
  /\ nOps < MaxOps
  /\ Step("injectWonderCard", sf.m_filePath, a,
          injectWonderCard(sf, Records[a.rec], Scripts[a.script], CrcTables[a.table],
                           RawCards[a.raw],
                           [clearMetadata |-> a.clearMetadata,
                            clearTrainerIds |-> a.clearTrainerIds]))

Enable ==
  /\ nOps < MaxOps
  /\ Step("enableMysteryGift", sf.m_filePath, NoArgs, enableMysteryGift(sf))

Next ==
  \/ \E f \in DOMAIN disk : Load(f)
  \/ \E a \in InjectCalls : Inject(a)
  \/ Enable

Spec == Init /\ [][Next]_vars

InitInject ==
  /\ disk = [f \in InjectFiles |-> FileAt(f)]
  /\ sf = NewSaveFile
  /\ call = NoCall
  /\ nOps = 0
  /\ ck = NoCk
  /\ fn = NoFn

NextInject ==
  \/ \E f \in DOMAIN disk : Load(f)
  \/ \E a \in InjectCallsWide : Inject(a)

SpecInject == InitInject /\ [][NextInject]_vars

(***************************************************************************)
(* The mutation specification: up to MaxCalls calls on one object, so that *)
(* a mutation is also made on a buffer an earlier mutation has written.    *)
(***************************************************************************)
MaxCalls == 3

FrameFiles ==
  {SaveNamed("FRLG", 3, BHigher, {}, FALSE, "default", {}, <<>>),
   SaveNamed("EM", 0, AHigher, {}, FALSE, "default", {0, 1}, <<>>),
   SaveNamed("FRLG", 0, AHigher, {}, FALSE, "default", {}, <<4, 4085, 1>>)}

FrameCalls ==
  {InjectArgs("r332", "a", "s1000n", "ok", TRUE, TRUE),
   InjectArgs("none", "b", "none", "ok", FALSE, FALSE),
   InjectArgs("r336", "b", "s1004", "ok", TRUE, FALSE)}

InitFrame ==
  /\ disk = [f \in FrameFiles |-> FileAt(f)]
  /\ sf = NewSaveFile
  /\ call = NoCall
  /\ nOps = 0
  /\ ck = NoCk
  /\ fn = NoFn

FrameLoad(f) ==
  /\ nOps < MaxCalls
  /\ Step("loadFromFile", f, NoArgs, loadFromFile(sf, f, disk[f]))

FrameInject(a) ==
  /\ nOps < MaxCalls
  /\ Step("injectWonderCard", sf.m_filePath, a,
          injectWonderCard(sf, Records[a.rec], Scripts[a.script], CrcTables[a.table],
                           RawCards[a.raw],
                           [clearMetadata |-> a.clearMetadata,
                            clearTrainerIds |-> a.clearTrainerIds]))

FrameEnable ==
  /\ nOps < MaxCalls
  /\ Step("enableMysteryGift", sf.m_filePath, NoArgs, enableMysteryGift(sf))

NextFrame ==
  \/ \E f \in DOMAIN disk : FrameLoad(f)
  \/ \E a \in FrameCalls : FrameInject(a)
  \/ FrameEnable

SpecFrame == InitFrame /\ [][NextFrame]_vars

(***************************************************************************)
(* The checksum specification: computeSectionChecksum applied to every     *)
(* array of MaxCkBytes bytes drawn from CkByteValues, over every length    *)
(* up to MaxCkBytes.                                                       *)
(***************************************************************************)
MaxCkBytes == 8

CkByteValues == {0, 255}

CkInputs ==
  {[data |-> BytesOf(MaxCkBytes, {<<i, d[i]>> : i \in 0 .. (MaxCkBytes - 1)}),
    length |-> n, out |-> -1] :
     d \in [0 .. (MaxCkBytes - 1) -> CkByteValues], n \in 0 .. MaxCkBytes}

InitCk ==
  /\ disk = NoDisk
  /\ sf = NewSaveFile
  /\ call = NoCall
  /\ nOps = 0
  /\ ck \in CkInputs
  /\ fn = NoFn

Checksum ==
  /\ ck.out = -1
  /\ ck' = [ck EXCEPT !.out = computeSectionChecksum(ck.data, 0, ck.length)]
  /\ UNCHANGED <<disk, sf, call, nOps, fn>>

NextCk == Checksum

SpecCk == InitCk /\ [][NextCk]_vars

(***************************************************************************)
(* The text specification: encodeText and decodeText applied in turn,      *)
(* starting from a string or from one byte; fn.texts lists the strings     *)
(* decodeText returned.                                                    *)
(***************************************************************************)
MaxTextLen == 3

MaxLength == 4

MaxDecodes == 3

\* '0', '9', 'P', 'v', ' ', '*', U+0000 and U+3042 (not in the table)
TextChars == {48, 57, 80, 118, 32, 42, 0, 12354}

TextInputs == UNION {[1 .. n -> TextChars] : n \in 0 .. MaxTextLen}

InitText ==
  /\ disk = NoDisk
  /\ sf = NewSaveFile
  /\ call = NoCall
  /\ nOps = 0
  /\ ck = NoCk
  /\ \/ \E t \in TextInputs, n \in 0 .. MaxLength :
          fn = [op |-> "text", from |-> -1, text |-> t, maxLength |-> n,
                dest |-> EmptyBytes, texts |-> <<>>, last |-> "string"]
     \/ \E b \in 0 .. 255, n \in 1 .. MaxLength :
          fn = [op |-> "text", from |-> b, text |-> <<>>, maxLength |-> n,
                dest |-> BytesOf(1, {<<0, b>>}), texts |-> <<>>, last |-> "bytes"]

EncodeText ==
  /\ fn.op = "text"
  /\ fn.last \in {"string", "decodeText"}
  /\ Len(fn.texts) < MaxDecodes
  /\ fn' = [fn EXCEPT !.dest = [size |-> fn.maxLength,
                                 nz |-> encodeText(fn.text, fn.maxLength)],
                       !.last = "encodeText"]
  /\ UNCHANGED <<disk, sf, call, nOps, ck>>

DecodeText ==
  /\ fn.op = "text"
  /\ fn.last \in {"bytes", "encodeText"}
  /\ Len(fn.texts) < MaxDecodes
  /\ fn' = [fn EXCEPT !.text = decodeText(fn.dest, fn.dest.size),
                       !.texts = Append(fn.texts, decodeText(fn.dest, fn.dest.size)),
                       !.last = "decodeText"]
  /\ UNCHANGED <<disk, sf, call, nOps, ck>>

NextText == EncodeText \/ DecodeText

SpecText == InitText /\ [][NextText]_vars

(***************************************************************************)
(* The CRC specification: calculateCRC16 applied to every buffer of up to  *)
(* MaxCrcBytes bytes drawn from CrcByteValues, with each table.            *)
(***************************************************************************)
MaxCrcBytes == 4

CrcByteValues == {0, 33, 255}

CrcInputs ==
  UNION {{BytesOf(n, {<<i, d[i]>> : i \in 0 .. (n - 1)}) :
            d \in [0 .. (n - 1) -> CrcByteValues]} : n \in 0 .. MaxCrcBytes}

InitCrc ==
  /\ disk = NoDisk
  /\ sf = NewSaveFile
  /\ call = NoCall
  /\ nOps = 0
  /\ ck = NoCk
  /\ \E d \in CrcInputs, t \in DOMAIN CrcTables :
       fn = [op |-> "crc", data |-> d, table |-> t, out |-> -1]

CalculateCRC16 ==
  /\ fn.op = "crc"
  /\ fn.out = -1
  /\ fn' = [fn EXCEPT !.out = calculateCRC16(fn.data, CrcTables[fn.table])]
  /\ UNCHANGED <<disk, sf, call, nOps, ck>>

NextCrc == CalculateCRC16

SpecCrc == InitCrc /\ [][NextCrc]_vars

(***************************************************************************)
(* The card specification: parseWonderCard applied to a payload, then      *)
(* encodeWonderCard applied to the record it returned.  The payloads are   *)
(* given by their non-zero bytes: numeric fields, title (offset 10), last  *)
(* warning line (offset 290) and the two bytes after it.                   *)
(***************************************************************************)
CardHeaders ==
  {{}, {<<0, 233>>, <<1, 3>>, <<2, 130>>, <<3, 1>>, <<4, 1>>, <<7, 128>>, <<8, 69>>,
        <<9, 3>>}}

\* the bytes that unicodeToGen3 returns for the character they decode to
CanonicalBytes ==
  {b \in 0 .. 255 : GEN3_TO_UNICODE[b + 1] # 0 /\ unicodeToGen3(GEN3_TO_UNICODE[b + 1]) = b}

\* "", "TEST", "Lv5!", "A B", forty 'A', the byte 0x18, and seven titles that
\* together hold every canonical byte, byte 40 k + i at place i of title k
CardTitles ==
  {{<<10 + i, 40 * k + i>> : i \in {j \in 0 .. 39 : 40 * k + j \in CanonicalBytes}} :
     k \in 0 .. 6} \cup
  {{}, {<<10, 206>>, <<11, 191>>, <<12, 205>>, <<13, 206>>},
   {<<10, 198>>, <<11, 234>>, <<12, 166>>, <<13, 171>>},
   {<<10, 187>>, <<12, 188>>},
   {<<10 + i, 187>> : i \in 0 .. 39},
   {<<10, 24>>}}

CardWarnings == {{}, {<<290, 187>>, <<329, 213>>}}

CardTails == {{}, {<<331, 7>>}, {<<330, 1>>, <<331, 255>>}}

CardInputs ==
  {BytesOf(WONDERCARD_PAYLOAD_SIZE, h \cup t \cup w \cup x) :
     h \in CardHeaders, t \in CardTitles, w \in CardWarnings, x \in CardTails}
  \cup {RawCards.r336, RawCards.r100}

InitCard ==
  /\ disk = NoDisk
  /\ sf = NewSaveFile
  /\ call = NoCall
  /\ nOps = 0
  /\ ck = NoCk
  /\ \E p \in CardInputs :
       fn = [op |-> "card", payload |-> p, data |-> EmptyWonderCard, out |-> EmptyBytes,
             last |-> "payload"]

ParseWonderCard ==
  /\ fn.op = "card"
  /\ fn.last = "payload"
  /\ fn' = [fn EXCEPT !.data = parseWonderCard(fn.payload), !.last = "parseWonderCard"]
  /\ UNCHANGED <<disk, sf, call, nOps, ck>>

EncodeWonderCard ==
  /\ fn.op = "card"
  /\ fn.last = "parseWonderCard"
  /\ fn' = [fn EXCEPT !.out = encodeWonderCard(fn.data), !.last = "encodeWonderCard"]
  /\ UNCHANGED <<disk, sf, call, nOps, ck>>

NextCard == ParseWonderCard \/ EncodeWonderCard

SpecCard == InitCard /\ [][NextCard]_vars

(***************************************************************************)
(* The read specification: readByte, readHalfWord, readWord and readBytes  *)
(* applied to a buffer of up to MaxRomLen bytes (byte i holds i + 1) at    *)
(* offsets around its end and just below 2^32.                             *)
(***************************************************************************)
MaxRomLen == 6

RomOf(n) == BytesOf(n, {<<i, i + 1>> : i \in 0 .. (n - 1)})

Roms == {RomOf(0), RomOf(1), RomOf(MaxRomLen)}

ReadOffsets ==
  {<<0, k>> : k \in 0 .. (MaxRomLen + 1)} \cup {<<65535, 65532 + k>> : k \in 0 .. 3}

ReadLengths == 0 .. 3

InitRead ==
  /\ disk = NoDisk
  /\ sf = NewSaveFile
  /\ call = NoCall
  /\ nOps = 0
  /\ ck = NoCk
  /\ \E r \in Roms, o \in ReadOffsets, n \in ReadLengths :
       fn = [op |-> "read", rom |-> r, offset |-> o, length |-> n, last |-> "args",
             out |-> [val |-> 0, oob |-> FALSE]]

ReadByte ==
  /\ fn.op = "read"
  /\ fn.last = "args"
  /\ \E r \in readByte(fn.rom, fn.offset) : fn' = [fn EXCEPT !.out = r, !.last = "readByte"]
  /\ UNCHANGED <<disk, sf, call, nOps, ck>>

ReadHalfWord ==
  /\ fn.op = "read"
  /\ fn.last = "args"
  /\ \E r \in readHalfWord(fn.rom, fn.offset) :
       fn' = [fn EXCEPT !.out = r, !.last = "readHalfWord"]
  /\ UNCHANGED <<disk, sf, call, nOps, ck>>

ReadWord ==
  /\ fn.op = "read"
  /\ fn.last = "args"
  /\ \E r \in readWord(fn.rom, fn.offset) : fn' = [fn EXCEPT !.out = r, !.last = "readWord"]
  /\ UNCHANGED <<disk, sf, call, nOps, ck>>

ReadBytes ==
  /\ fn.op = "read"
  /\ fn.last = "args"
  /\ \E r \in readBytes(fn.rom, fn.offset, fn.length) :
       fn' = [fn EXCEPT !.out = r, !.last = "readBytes"]
  /\ UNCHANGED <<disk, sf, call, nOps, ck>>

NextRead == ReadByte \/ ReadHalfWord \/ ReadWord \/ ReadBytes

SpecRead == InitRead /\ [][NextRead]_vars

(***************************************************************************)
(* The LZ77 specification: decompressLZ77 applied to ROM buffers that hold *)
(* a stream written from a list of tokens, <<"lit", byte, 0>> or           *)
(* <<"ref", length, displacement>>: `pad` bytes, the header (type byte and *)
(* declared size), a flag byte before every eight tokens, the tokens'      *)
(* bytes less the last `cut` ones, and `junk` bytes 0xFF.                  *)
(***************************************************************************)
MaxTokens == 3

LzTokens == {<<"lit", 7, 0>>, <<"lit", 200, 0>>, <<"ref", 3, 1>>, <<"ref", 5, 2>>}

\* ten tokens, the flag byte 0x20 then 0x40; the second ends on a reference
\* of displacement 300
LzLongLists ==
  {<<<<"lit", 1, 0>>, <<"lit", 2, 0>>, <<"ref", 3, 1>>, <<"lit", 4, 0>>, <<"lit", 5, 0>>,
     <<"lit", 6, 0>>, <<"lit", 7, 0>>, <<"lit", 8, 0>>, <<"lit", 9, 0>>, <<"ref", 18, 3>>>>,
   <<<<"lit", 1, 0>>, <<"lit", 2, 0>>, <<"ref", 3, 1>>, <<"lit", 4, 0>>, <<"lit", 5, 0>>,
     <<"lit", 6, 0>>, <<"lit", 7, 0>>, <<"lit", 8, 0>>, <<"lit", 9, 0>>, <<"ref", 3, 300>>>>}

LzTokenLists == UNION {[1 .. n -> LzTokens] : n \in 1 .. MaxTokens} \cup LzLongLists

TokenBytes(t) ==
  IF t[1] = "lit" THEN <<t[2]>>
  ELSE <<(t[2] - 3) * 16 + ((t[3] - 1) \div 256), (t[3] - 1) % 256>>

RefBit(tokens, i, weight) ==
  IF i <= Len(tokens) /\ tokens[i][1] = "ref" THEN weight ELSE 0

FlagByte(tokens, i) ==
  RefBit(tokens, i, 128) + RefBit(tokens, i + 1, 64) + RefBit(tokens, i + 2, 32)
  + RefBit(tokens, i + 3, 16) + RefBit(tokens, i + 4, 8) + RefBit(tokens, i + 5, 4)
  + RefBit(tokens, i + 6, 2) + RefBit(tokens, i + 7, 1)

RECURSIVE TokenStream(_, _)
TokenStream(tokens, i) ==
  IF i > Len(tokens) THEN <<>>
  ELSE (IF (i - 1) % 8 = 0 THEN <<FlagByte(tokens, i)>> ELSE <<>>)
       \o TokenBytes(tokens[i]) \o TokenStream(tokens, i + 1)

\* number of bytes the tokens stand for
RECURSIVE TokenTotal(_, _)
TokenTotal(tokens, i) ==
  IF i > Len(tokens) THEN 0
  ELSE (IF tokens[i][1] = "lit" THEN 1 ELSE tokens[i][2]) + TokenTotal(tokens, i + 1)

SeqBytes(q) == BytesOf(Len(q), {<<i - 1, q[i]>> : i \in 1 .. Len(q)})

LzRom(c) ==
  SeqBytes([i \in 1 .. c.pad |-> 9]
           \o <<c.type, c.declared % 256, (c.declared \div 256) % 256,
                c.declared \div 65536>>
           \o SubSeq(TokenStream(c.tokens, 1), 1, Len(TokenStream(c.tokens, 1)) - c.cut)
           \o [i \in 1 .. c.junk |-> 255])

LzCase(tokens, declared, type, pad, junk, cut, offset) ==
  [tokens |-> tokens, declared |-> declared, type |-> type, pad |-> pad, junk |-> junk,
   cut |-> cut, offset |-> offset]

LzCases ==
  {LzCase(t, TokenTotal(t, 1) + d - 1, 16, p, j, 0, <<0, p>>) :
     t \in LzTokenLists, d \in 0 .. 2, p \in {0, 2}, j \in {0, 1}}
  \cup {LzCase(t, TokenTotal(t, 1), 16, 0, 0, 1, <<0, 0>>) : t \in LzTokenLists}
  \cup {LzCase(<<<<"lit", 7, 0>>>>, d, ty, 0, 1, 0, <<0, 0>>) :
          d \in {0, 1, 1048577}, ty \in {0, 16, 17}}
  \cup {LzCase(<<<<"lit", 7, 0>>>>, 1, 16, 2, 0, 0, o) :
          o \in {<<0, 0>>, <<0, 5>>, <<0, 8>>, <<65535, 65532>>, <<65535, 65535>>}}

InitLz ==
  /\ disk = NoDisk
  /\ sf = NewSaveFile
  /\ call = NoCall
  /\ nOps = 0
  /\ ck = NoCk
  /\ \E c \in LzCases :
       fn = [op |-> "lz", case |-> c, rom |-> LzRom(c), last |-> "args",
             out |-> [data |-> <<>>, err |-> "", oob |-> FALSE]]

DecompressLZ77 ==
  /\ fn.op = "lz"
  /\ fn.last = "args"
  /\ \E r \in decompressLZ77(fn.rom, fn.case.offset) :
       fn' = [fn EXCEPT !.out = r, !.last = "decompressLZ77"]
  /\ UNCHANGED <<disk, sf, call, nOps, ck>>

NextLz == DecompressLZ77

SpecLz == InitLz /\ [][NextLz]_vars

(***************************************************************************)
(* extractTile4bpp and extractFont2bpp on ROM buffers that hold all, part  *)
(* or none of the bytes the call needs.                                    *)
(***************************************************************************)
MaxTileRom == 128

TileRoms == {RomOf(n) : n \in {0, 16, 31, 32, 40, 64, MaxTileRom}}

TileOffsets == {<<0, 0>>, <<0, 8>>, <<0, 32>>, <<0, 64>>, <<65535, 65504>>, <<65535, 65535>>}

\* width and height for extractTile4bpp; numChars, charHeight and
\* sourceTileColumns for extractFont2bpp, with charWidth 8
TileShapes ==
  {[width |-> 8, height |-> 8, numChars |-> 1, charHeight |-> 8, columns |-> 1, identified |-> TRUE],
   [width |-> 16, height |-> 8, numChars |-> 2, charHeight |-> 8, columns |-> 2, identified |-> TRUE],
   [width |-> 8, height |-> 16, numChars |-> 1, charHeight |-> 16, columns |-> 1, identified |-> TRUE],
   [width |-> 16, height |-> 16, numChars |-> 3, charHeight |-> 8, columns |-> 2, identified |-> TRUE],
   [width |-> 12, height |-> 8, numChars |-> 2, charHeight |-> 16, columns |-> 2, identified |-> TRUE],
   [width |-> 8, height |-> 4, numChars |-> 1, charHeight |-> 8, columns |-> 2, identified |-> FALSE]}

InitTile ==
  /\ disk = NoDisk
  /\ sf = NewSaveFile
  /\ call = NoCall
  /\ nOps = 0
  /\ ck = NoCk
  /\ \E r \in TileRoms, o \in TileOffsets, s \in TileShapes :
       fn = [op |-> "tile", rom |-> r, offset |-> o, shape |-> s, last |-> "args",
             out |-> NullImage]

ExtractTile4bpp ==
  /\ fn.op = "tile"
  /\ fn.last = "args"
  /\ \E r \in extractTile4bpp(fn.rom, fn.offset, fn.shape.width, fn.shape.height) :
       fn' = [fn EXCEPT !.out = r, !.last = "extractTile4bpp"]
  /\ UNCHANGED <<disk, sf, call, nOps, ck>>

ExtractFont2bpp ==
  /\ fn.op = "tile"
  /\ fn.last = "args"
  /\ fn' = [fn EXCEPT !.out = extractFont2bpp(fn.rom, fn.shape.identified, fn.offset,
                                              fn.shape.numChars, 8, fn.shape.charHeight,
                                              fn.shape.columns),
                      !.last = "extractFont2bpp"]
  /\ UNCHANGED <<disk, sf, call, nOps, ck>>

NextTile == ExtractTile4bpp \/ ExtractFont2bpp

SpecTile == InitTile /\ [][NextTile]_vars

(***************************************************************************)
(* SaveFile::saveToFile(path, makeBackup), one action for each file-system *)
(* call it makes, each of which can fail.  disk holds the files at path,   *)
(* at the backup path and at path + ".tmp"; fn holds the position of the   *)
(* call, its arguments, what it returned, and the file that was at path    *)
(* before the call.                                                        *)
(***************************************************************************)
MaxShortWrite == 4096

AbsentFile == [exists |-> FALSE, opens |-> FALSE, data |-> EmptyBytes]

FileOf(bytes) == [exists |-> TRUE, opens |-> TRUE, data |-> bytes]

\* the object saveToFile is called on: not loaded, or holding a loaded save
SaveObjects ==
  {NewSaveFile,
   loadFromFile(NewSaveFile, SaveNamed("FRLG", 0, AHigher, {}, FALSE, "default", {}, <<>>),
                FileAt(SaveNamed("FRLG", 0, AHigher, {}, FALSE, "default", {}, <<>>))).obj}

SavePath == [kind |-> "path"]

\* bytesWritten: all of m_bytes, a part of it, or nothing
WriteCounts(s) == {s.m_bytes.size, MaxShortWrite, 0}

InitSave ==
  /\ \E p \in {AbsentFile, FileAt(Sized(EXPECTED_FILE_SIZE))},
        b \in {AbsentFile, FileAt(Sized(5))},
        t \in {AbsentFile, FileAt(Sized(3))} :
       disk = [path |-> p, bak |-> b, tmp |-> t]
  /\ sf \in SaveObjects
  /\ call = NoCall
  /\ nOps = 0
  /\ ck = NoCk
  /\ \E makeBackup \in BOOLEAN :
       fn = [op |-> "save", pc |-> "start", makeBackup |-> makeBackup, ret |-> FALSE,
             err |-> "", before |-> disk.path]

\* return ret with errorMessage err
SaveReturn(ret, err) == fn' = [fn EXCEPT !.pc = "done", !.ret = ret, !.err = err]

SaveGoto(pc) == fn' = [fn EXCEPT !.pc = pc]

\* lines 67-80: isLoaded(), makeBackup, QFile::exists(path), QFile::exists(backupPath)
SaveStart ==
  /\ fn.op = "save"
  /\ fn.pc = "start"
  /\ IF ~isLoaded(sf) THEN SaveReturn(FALSE, "No save file loaded")
     ELSE IF fn.makeBackup /\ disk.path.exists
       THEN (IF disk.bak.exists THEN SaveGoto("removeBackup") ELSE SaveGoto("copy"))
     ELSE SaveGoto("open")
  /\ UNCHANGED <<disk, sf, call, nOps, ck>>

\* line 81: QFile::remove(backupPath), its result not looked at
SaveRemoveBackup ==
  /\ fn.op = "save"
  /\ fn.pc = "removeBackup"
  /\ \E ok \in BOOLEAN : disk' = [disk EXCEPT !.bak = IF ok THEN AbsentFile ELSE @]
  /\ SaveGoto("copy")
  /\ UNCHANGED <<sf, call, nOps, ck>>

\* lines 84-87: QFile::copy(path, backupPath), which fails when backupPath exists
SaveCopy ==
  /\ fn.op = "save"
  /\ fn.pc = "copy"
  /\ \E ok \in BOOLEAN :
       IF ok /\ ~disk.bak.exists
         THEN disk' = [disk EXCEPT !.bak = disk.path] /\ SaveGoto("open")
       ELSE UNCHANGED disk /\ SaveReturn(FALSE, "Failed to create backup file")
  /\ UNCHANGED <<sf, call, nOps, ck>>

\* lines 92-97: file.open(QIODevice::WriteOnly) on path + ".tmp"
SaveOpen ==
  /\ fn.op = "save"
  /\ fn.pc = "open"
  /\ \E ok \in BOOLEAN :
       IF ok THEN disk' = [disk EXCEPT !.tmp = FileOf(EmptyBytes)] /\ SaveGoto("write")
       ELSE UNCHANGED disk /\ SaveReturn(FALSE, "Failed to create temporary file")
  /\ UNCHANGED <<sf, call, nOps, ck>>

\* lines 99-104 and 108: file.write(m_bytes), file.close(), the test of
\* bytesWritten, QFile::exists(path)
SaveWrite ==
  /\ fn.op = "save"
  /\ fn.pc = "write"
  /\ \E bytesWritten \in WriteCounts(sf) :
       /\ disk' = [disk EXCEPT !.tmp = FileOf(Mid(sf.m_bytes, 0, bytesWritten))]
       /\ IF bytesWritten # sf.m_bytes.size
            THEN fn' = [fn EXCEPT !.pc = "removeTemp", !.err = "Failed to write complete file"]
          ELSE IF disk.path.exists THEN SaveGoto("removeOriginal")
          ELSE SaveGoto("rename")
  /\ UNCHANGED <<sf, call, nOps, ck>>

\* lines 109-113: QFile::remove(path)
SaveRemoveOriginal ==
  /\ fn.op = "save"
  /\ fn.pc = "removeOriginal"
  /\ \E ok \in BOOLEAN :
       IF ok THEN disk' = [disk EXCEPT !.path = AbsentFile] /\ SaveGoto("rename")
       ELSE /\ UNCHANGED disk
            /\ fn' = [fn EXCEPT !.pc = "removeTemp", !.err = "Failed to remove original file"]
  /\ UNCHANGED <<sf, call, nOps, ck>>

\* lines 103-104 and 111-112: QFile::remove(tempPath); return false
SaveRemoveTemp ==
  /\ fn.op = "save"
  /\ fn.pc = "removeTemp"
  /\ \E ok \in BOOLEAN : disk' = [disk EXCEPT !.tmp = IF ok THEN AbsentFile ELSE @]
  /\ SaveReturn(FALSE, fn.err)
  /\ UNCHANGED <<sf, call, nOps, ck>>

\* lines 116-122: QFile::rename(tempPath, path), which fails when path exists
SaveRename ==
  /\ fn.op = "save"
  /\ fn.pc = "rename"
  /\ \E ok \in BOOLEAN :
       IF ok /\ ~disk.path.exists
         THEN /\ disk' = [disk EXCEPT !.path = disk.tmp, !.tmp = AbsentFile]
              /\ sf' = [sf EXCEPT !.m_filePath = SavePath]
              /\ SaveReturn(TRUE, "")
       ELSE /\ UNCHANGED <<disk, sf>>
            /\ SaveReturn(FALSE, "Failed to rename temporary file")
  /\ UNCHANGED <<call, nOps, ck>>

NextSave ==
  \/ SaveStart
  \/ SaveRemoveBackup
  \/ SaveCopy
  \/ SaveOpen
  \/ SaveWrite
  \/ SaveRemoveOriginal
  \/ SaveRemoveTemp
  \/ SaveRename

SpecSave == InitSave /\ [][NextSave]_vars

(***************************************************************************)
(* Loads and name lookups on one GBAROReader, up to MaxReaderCalls calls.  *)
(***************************************************************************)
MaxReaderCalls == 4

\* the bytes of a Gen3 string at o, ended by 0xFF
NameBytes(o, bytes) == {<<o + i - 1, bytes[i]>> : i \in 1 .. Len(bytes)} \cup {<<o + Len(bytes), 255>>}

\* tables of two entries each: items of 8 bytes with names of 6, others of 4
TablesAt(o) ==
  [hasNameTables |-> TRUE,
   itemTable |-> [offset |-> o, entrySize |-> 8, nameLength |-> 6, count |-> 2],
   pokemonTable |-> [offset |-> o + 16, entrySize |-> 4, nameLength |-> 4, count |-> 2],
   moveTable |-> [offset |-> o + 24, entrySize |-> 4, nameLength |-> 4, count |-> 2]]

\* a ROM image of first byte tag with the names given at the tables at o:
\* item names first
RomImage(tag, o, names) ==
  BytesOf(MIN_ROM_SIZE,
          {<<0, tag>>}
          \cup NameBytes(o, names[1]) \cup NameBytes(o + 8, names[2])
          \cup NameBytes(o + 16, names[3]) \cup NameBytes(o + 20, names[4])
          \cup NameBytes(o + 24, names[5]) \cup NameBytes(o + 28, names[6]))

\* "Po.t n", "Orb", "Mew", "Abr", "Cut", "Dig"
NamesA ==
  <<<<202, 227, 173, 232, 0, 226>>, <<201, 230, 214>>, <<199, 217, 235>>,
    <<187, 214, 230>>, <<189, 233, 232>>, <<190, 221, 219>>>>

\* "Gem", "X ray", "Uxi", "Zap", "Hex", "Fly"
NamesB ==
  <<<<193, 217, 225>>, <<210, 0, 230, 213, 237>>, <<207, 236, 221>>,
    <<212, 213, 228>>, <<194, 217, 236>>, <<192, 224, 237>>>>

NoVersion == [name |-> "", hasNameTables |-> FALSE, itemTable |-> NoTable,
              pokemonTable |-> NoTable, moveTable |-> NoTable]

VersionNamed(name, tables) ==
  [name |-> name, hasNameTables |-> tables.hasNameTables, itemTable |-> tables.itemTable,
   pokemonTable |-> tables.pokemonTable, moveTable |-> tables.moveTable]

\* the files loadROM is given, each with the version the database has for it
RomFiles ==
  [missing |-> [file |-> [opens |-> FALSE, data |-> EmptyBytes], version |-> NoVersion],
   small |-> [file |-> [opens |-> TRUE, data |-> BytesOf(MIN_ROM_SIZE - 1, {<<0, 1>>})],
              version |-> NoVersion],
   unknown |-> [file |-> [opens |-> TRUE, data |-> RomImage(1, 256, NamesB)],
                version |-> NoVersion],
   a |-> [file |-> [opens |-> TRUE, data |-> RomImage(2, 512, NamesA)],
          version |-> VersionNamed("FireRed_1.0", TablesAt(512))],
   b |-> [file |-> [opens |-> TRUE, data |-> RomImage(3, 512, NamesB)],
          version |-> VersionNamed("LeafGreen_1.0", TablesAt(512))],
   c |-> [file |-> [opens |-> TRUE, data |-> RomImage(4, 512, NamesA)],
          version |-> VersionNamed("Emerald", [NoVersion EXCEPT !.name = "Emerald"])]]

NameIds == 0 .. 2

InitNames ==
  /\ disk = NoDisk
  /\ sf = NewSaveFile
  /\ call = NoCall
  /\ nOps = 0
  /\ ck = NoCk
  /\ fn = [op |-> "names", reader |-> NewReader, last |-> "new", id |-> 0, ret |-> <<>>,
           ok |-> FALSE, n |-> 0]

\* a call `last` with argument id that leaves the reader r and returns ret or ok
NamesStep(last, id, r, ret, ok) ==
  /\ fn.op = "names"
  /\ fn.n < MaxReaderCalls
  /\ fn' = [fn EXCEPT !.reader = r, !.last = last, !.id = id, !.ret = ret, !.ok = ok,
                      !.n = @ + 1]
  /\ UNCHANGED <<disk, sf, call, nOps, ck>>

NamesLoaded(l) == NamesStep("loadROM", 0, l.obj, <<>>, l.ret)

LoadROM(f, databaseLoaded) ==
  NamesLoaded(loadROM(fn.reader, RomFiles[f].file, databaseLoaded, RomFiles[f].version))

NamesLooked(last, id, l) == NamesStep(last, id, l.obj, l.ret, TRUE)

GetItemName(id) == NamesLooked("getItemName", id, getItemName(fn.reader, id))

GetPokemonName(id) == NamesLooked("getPokemonName", id, getPokemonName(fn.reader, id))

GetMoveName(id) == NamesLooked("getMoveName", id, getMoveName(fn.reader, id))

NextNames ==
  \/ \E f \in DOMAIN RomFiles, databaseLoaded \in BOOLEAN : LoadROM(f, databaseLoaded)
  \/ \E id \in NameIds : GetItemName(id)
  \/ \E id \in NameIds : GetPokemonName(id)
  \/ \E id \in NameIds : GetMoveName(id)

SpecNames == InitNames /\ [][NextNames]_vars

(***************************************************************************)
(* Scripts given to a ScriptDisassembler: one disassembly of each script   *)
(* of up to MaxPieces pieces, and up to MaxDisasmCalls disassemblies by    *)
(* one disassembler.                                                       *)
(***************************************************************************)
MaxPieces == 3

MaxDisasmCalls == 2

CommandNames ==
  [o \in {0, 2, 4, 5, 6, 7, 41, 184, 185, 186, 187, 188, 189} |->
     CASE o = 0 -> "nop" [] o = 2 -> "end" [] o = 4 -> "call" [] o = 5 -> "goto"
       [] o = 6 -> "goto_if" [] o = 7 -> "call_if" [] o = 41 -> "setflag"
       [] o = 184 -> "setvaddress" [] o = 185 -> "vgoto" [] o = 186 -> "vcall"
       [] o = 187 -> "vgoto_if" [] o = 188 -> "vcall_if" [] o = 189 -> "vmessage"]

\* the command definitions of the script language: name, format and
\* description of each opcode
StdCommands ==
  [o \in DOMAIN CommandNames |->
     [name |-> CommandNames[o],
      args |-> IF o \in {4, 5, 184, 185, 186, 189} THEN <<"d">>
               ELSE IF o \in {6, 7, 187, 188} THEN <<"b", "d">>
               ELSE IF o = 41 THEN <<"f">>
               ELSE <<>>,
      desc |-> CommandNames[o]]]

\* no command definitions loaded
NoCommands == [o \in {} |-> [name |-> "", args |-> <<>>, desc |-> ""]]

ScriptFlags == [f \in {1} |-> "FLAG_RECEIVED_GIFT"]

\* the pieces scripts are made of: whole commands with targets inside and
\* outside a script, addresses below, inside and above the ROM window,
\* commands cut short, an opcode without definition and the end
ScriptPieces ==
  {<<0>>, <<238>>, <<2>>,
   <<5, 5, 0, 0, 0>>, <<5, 0, 0, 0, 0>>, <<4, 200, 0, 0, 0>>, <<6, 1, 7, 0, 0, 0>>,
   <<184, 0, 0, 0, 8>>, <<184, 0, 0, 0, 10>>, <<184, 255, 255, 255, 7>>,
   <<184, 0, 0, 0, 184>>,
   <<185, 5, 0, 0, 8>>, <<188, 0, 7, 0, 0, 10>>, <<189, 11, 0, 0, 8>>,
   <<41, 1, 0>>, <<41, 2, 0>>, <<5, 1>>, <<187, 253, 2, 255>>}

RECURSIVE PieceRuns(_)
\* the byte sequences made of up to n pieces
PieceRuns(n) ==
  IF n = 0 THEN {<<>>}
  ELSE PieceRuns(n - 1) \cup {r \o p : r \in PieceRuns(n - 1), p \in ScriptPieces}

\* QByteArray of the bytes of a sequence
ScriptOf(bytes) == BytesOf(Len(bytes), {<<i - 1, bytes[i]>> : i \in 1 .. Len(bytes)})

WalkScripts == {ScriptOf(r) : r \in PieceRuns(MaxPieces)}

\* the scripts one disassembler is given in turn
HistoryScripts ==
  {ScriptOf(r) :
     r \in {<<>>, <<2>>, <<238, 0>>, <<5, 5, 0, 0, 0, 2>>,
            <<41, 1, 0, 41, 2, 0, 2>>, <<184, 0, 0, 0, 8, 185, 5, 0, 0, 8, 2>>,
            <<184, 0, 0, 0, 8, 189, 11, 0, 0, 8, 2, 187, 253, 2, 255>>,
            <<6, 1, 7, 0, 0, 0, 41, 2, 0>>, <<184, 0, 0, 0, 10, 188, 0, 7, 0, 0, 10>>}}

InitWalk ==
  /\ disk = NoDisk
  /\ sf = NewSaveFile
  /\ call = NoCall
  /\ nOps = 0
  /\ ck = NoCk
  /\ \E data \in WalkScripts :
       fn = [op |-> "disasm", last |-> "new", obj |-> NewDisassembler(StdCommands, ScriptFlags),
             data |-> data, prev |-> data, show |-> <<TRUE, TRUE, TRUE>>,
             ret |-> NotLoadedText, n |-> 0]

InitDisasm ==
  /\ disk = NoDisk
  /\ sf = NewSaveFile
  /\ call = NoCall
  /\ nOps = 0
  /\ ck = NoCk
  /\ \E commands \in {StdCommands, NoCommands} :
       fn = [op |-> "disasm", last |-> "new", obj |-> NewDisassembler(commands, ScriptFlags),
             data |-> EmptyBytes, prev |-> EmptyBytes, show |-> <<TRUE, TRUE, TRUE>>,
             ret |-> NotLoadedText, n |-> 0]

\* the call disassemble(data, show[1], show[2], show[3]) with result r
Disassembled(data, show, r) ==
  /\ fn' = [fn EXCEPT !.last = "disassemble", !.obj = r.obj, !.data = data,
                      !.prev = fn.data, !.show = show, !.ret = r.ret, !.n = @ + 1]
  /\ UNCHANGED <<disk, sf, call, nOps, ck>>

\* the script drawn at the start is disassembled once
WalkScript ==
  /\ fn.op = "disasm"
  /\ fn.n = 0
  /\ Disassembled(fn.data, fn.show, disassemble(fn.obj, fn.data, fn.show[1], fn.show[2],
                                                 fn.show[3]))

Disassemble(data, show) ==
  /\ fn.op = "disasm"
  /\ fn.n < MaxDisasmCalls
  /\ Disassembled(data, show, disassemble(fn.obj, data, show[1], show[2], show[3]))

NextWalk == WalkScript

NextDisasm == \E data \in HistoryScripts, show \in BOOLEAN \X BOOLEAN \X BOOLEAN : Disassemble(data, show)

SpecWalk == InitWalk /\ [][NextWalk]_vars

SpecDisasm == InitDisasm /\ [][NextDisasm]_vars

(***************************************************************************)
(* Properties                                                              *)
(***************************************************************************)
LoadDone == call.op = "loadFromFile" /\ call.ret

InjectDone == call.op = "injectWonderCard" /\ call.ret

EnableDone == call.op = "enableMysteryGift" /\ call.ret

\* the length the stated rule gives the section with logical id `id`
RuleLength(game, id) ==
  IF id = 4 THEN (IF game = "Emerald" THEN 3848 ELSE 3816)
  ELSE IF id = 0
    THEN (IF game = "Emerald" THEN 3884
          ELSE IF game = "FireRedLeafGreen" THEN 3876 ELSE 2192)
  ELSE 3968

\* every section of the slot matches its stored checksum under the stated rule
RuleValid(bytes, game, slot) ==
  \A pos \in 0 .. 13 :
    computeSectionChecksum(bytes, slot * 57344 + pos * 4096,
                           RuleLength(game, ReadU16(bytes, slot * 57344 + pos * 4096 + 4084)))
      = ReadU16(bytes, slot * 57344 + pos * 4096 + 4086)

\* the slots the stated selection allows
RuleSlots(validA, validB, counterA, counterB) ==
  IF validA /\ ~validB THEN {0}
  ELSE IF validB /\ ~validA THEN {1}
  ELSE IF U32Gt(counterA, counterB) THEN {0}
  ELSE IF U32Gt(counterB, counterA) THEN {1}
  ELSE {0, 1}

\* C1: after a successful load, the slot with all 14 section checksums valid is
\* the active one when exactly one slot is so; when both or neither are, the
\* slot with the higher save counter is.
C1_ActiveSlotSelection ==
  LoadDone =>
    sf.m_activeSaveSlot \in
      RuleSlots(RuleValid(sf.m_bytes, sf.m_detectedGame, 0),
                RuleValid(sf.m_bytes, sf.m_detectedGame, 1),
                ReadU32(sf.m_bytes, 4092), ReadU32(sf.m_bytes, 57344 + 4092))

\* C2: a slot is reported valid iff each of its 14 sections matches its stored
\* checksum over the section's own length (by logical id and game), and the
\* checksumValid flag of a loaded save is that report for the active slot.
C2_ValidationByOwnLength ==
  LoadDone =>
    /\ \A slot \in {0, 1} :
         analyzeSaveSlot(sf, slot).valid = RuleValid(sf.m_bytes, sf.m_detectedGame, slot)
    /\ sf.m_checksumValid = RuleValid(sf.m_bytes, sf.m_detectedGame, sf.m_activeSaveSlot)

\* the loaded bytes with the changed byte of the file put back
Unhit(bytes, hit) ==
  Poke(bytes, hit[1] * 4096 + hit[2],
       (At(bytes, hit[1] * 4096 + hit[2]) + 256 - hit[3]) % 256)

\* the loaded save is one where slot B is fully valid and slot A was fully
\* valid before one byte inside a section's checksum range was changed
OneByteCorrupted ==
  /\ LoadDone
  /\ call.file.hit # <<>>
  /\ call.file.hit[2] <
       RuleLength(sf.m_detectedGame, ReadU16(sf.m_bytes, call.file.hit[1] * 4096 + 4084))
  /\ RuleValid(sf.m_bytes, sf.m_detectedGame, 1)
  /\ RuleValid(Unhit(sf.m_bytes, call.file.hit), sf.m_detectedGame, 0)

\* C3: with one byte changed inside a checksum range of an otherwise valid
\* slot A and slot B fully valid, slot A fails validation and slot B is the
\* active slot, whatever the two save counters are.
C3_CorruptedSlotLoses ==
  OneByteCorrupted => ~analyzeSaveSlot(sf, 0).valid /\ sf.m_activeSaveSlot = 1

\* sum of the low (half = 0) or high (half = 1) 16 bits of the first k words
RECURSIVE HalfSum(_, _, _)
HalfSum(data, k, half) ==
  IF k = 0 THEN 0
  ELSE HalfSum(data, k - 1, half)
         + At(data, 4 * (k - 1) + 2 * half) + 256 * At(data, 4 * (k - 1) + 2 * half + 1)

\* S mod 2^16 and S div 2^16, S being the sum modulo 2^32 of the first k words
SLow(data, k) == HalfSum(data, k, 0) % 65536

SHigh(data, k) == (HalfSum(data, k, 1) + HalfSum(data, k, 0) \div 65536) % 65536

\* C4: the checksum of `length` bytes is ((S mod 2^16) + (S div 2^16)) mod 2^16,
\* S being the sum modulo 2^32 of the floor(length/4) little-endian words: one
\* fold, its carry dropped, the trailing length mod 4 bytes not counted.
C4_ChecksumFormula ==
  ck.out # -1 =>
    ck.out = (SLow(ck.data, ck.length \div 4) + SHigh(ck.data, ck.length \div 4)) % 65536

\* the sum overflows 32 bits, the fold carries, and trailing bytes are not zero
C4_Witness ==
  /\ ck.out # -1
  /\ ck.length = 7
  /\ ck.data.nz = [o \in 0 .. 7 |-> 255]

\* the gift section (logical id 4) of the active slot of the loaded file
GiftBase == sf.m_activeSaveSlot * 57344 + ((4 + 14 - call.file.rot) % 14) * 4096

GiftLength == IF call.file.game = "EM" THEN 3848 ELSE 3816

\* C5: on a successful injectWonderCard the two bytes of the gift section's
\* checksum (0xFF6, 0xFF7) are the last writes to the buffer, and the stored
\* checksum is the one of the section's final bytes over 0xF08 (Emerald) or
\* 0xEE8 (FireRed/LeafGreen).
C5_ChecksumLastOverOwnLength ==
  InjectDone =>
    /\ Len(call.log) >= 2
    /\ call.log[Len(call.log) - 1] = <<GiftBase + 4086, 1>>
    /\ call.log[Len(call.log)] = <<GiftBase + 4087, 1>>
    /\ \A i \in 1 .. (Len(call.log) - 2) :
         call.log[i][1] + call.log[i][2] <= GiftBase + 4086
    /\ ReadU16(sf.m_bytes, GiftBase + 4086)
         = computeSectionChecksum(sf.m_bytes, GiftBase, GiftLength)

\* an injection into a section with bytes past its own length, where the sum
\* over the default length is another one
C5_Witness ==
  /\ InjectDone
  /\ call.file.tail # {}
  /\ computeSectionChecksum(sf.m_bytes, GiftBase, 3968)
       # computeSectionChecksum(sf.m_bytes, GiftBase, GiftLength)

CardAt == GiftBase + (IF call.file.game = "EM" THEN 1388 ELSE 1120)

ScriptAt == GiftBase + (IF call.file.game = "EM" THEN 2216 ELSE 1948)

MetadataAt == GiftBase + (IF call.file.game = "EM" THEN 1728 ELSE 1460)

\* the last n bytes of b
LastBytes(b, n) == BytesOf(n, {<<i, At(b, i + b.size - n)>> : i \in 0 .. (n - 1)})

RawGiven == RawCards[call.args.raw].size \in {332, 336}

\* data is a CRC16 low byte first, two zero bytes, then the n bytes of payload
HeaderThen(data, crc, payload, n) ==
  /\ data.size = n + 4
  /\ At(data, 0) = crc % 256
  /\ At(data, 1) = crc \div 256
  /\ At(data, 2) = 0
  /\ At(data, 3) = 0
  /\ \A i \in 0 .. (n - 1) : At(data, 4 + i) = At(payload, i)

\* C6: after a successful injectWonderCard given raw card bytes P (332 bytes,
\* or 336 bytes whose last 332 are P), extractWonderCardRaw returns the CRC16
\* of P low byte first, two zero bytes, then P, whatever the record holds;
\* with no raw bytes of size 332 or 336 the card is the encoded record.
C6_RawCardRoundTrip ==
  InjectDone =>
    /\ extractWonderCardRaw(sf).err = ""
    /\ RawGiven =>
         HeaderThen(extractWonderCardRaw(sf).data,
                    calculateCRC16(LastBytes(RawCards[call.args.raw], 332),
                                   CrcTables[call.args.table]),
                    LastBytes(RawCards[call.args.raw], 332), 332)
    /\ ~RawGiven =>
         HeaderThen(extractWonderCardRaw(sf).data,
                    calculateCRC16(encodeWonderCard(Records[call.args.rec]),
                                   CrcTables[call.args.table]),
                    encodeWonderCard(Records[call.args.rec]), 332)

\* raw bytes with a header given together with a record that encodes otherwise
C6_Witness ==
  /\ InjectDone
  /\ call.args.raw = "r336"
  /\ call.args.rec = "a"
  /\ call.args.table = "ok"
  /\ LastBytes(RawCards["r336"], 332) # encodeWonderCard(Records["a"])

ScriptGiven == Scripts[call.args.script].size \in {1000, 1004}

\* C7: after a successful injectWonderCard given 1000 script bytes (or 1004
\* with a header), the stored script has 0x33 at byte 0 and the supplied
\* payload at bytes 1..999, and the 4 bytes before it are the CRC16 of the
\* stored 1000 bytes low byte first, then two zero bytes.
C7_ScriptStoredWithMagic ==
  (InjectDone /\ ScriptGiven) =>
    /\ extractScript(sf).data.size = 1000
    /\ At(extractScript(sf).data, 0) = 51
    /\ \A i \in 1 .. 999 :
         At(extractScript(sf).data, i) = At(LastBytes(Scripts[call.args.script], 1000), i)
    /\ ReadU16(sf.m_bytes, ScriptAt)
         = calculateCRC16(extractScript(sf).data, CrcTables[call.args.table])
    /\ At(sf.m_bytes, ScriptAt + 2) = 0
    /\ At(sf.m_bytes, ScriptAt + 3) = 0

\* a script given without the magic byte
C7_Witness ==
  /\ InjectDone
  /\ call.args.script = "s1000n"
  /\ At(Scripts["s1000n"], 0) # 51
  /\ ReadU16(sf.m_bytes, ScriptAt) # 0

\* C8: after a successful injectWonderCard, with clearMetadata set or not, the
\* two bytes at metadata offset + 6 are bytes 2..3 of the card payload written.
C8_IconMirrored ==
  InjectDone =>
    /\ At(sf.m_bytes, MetadataAt + 6) = At(sf.m_bytes, CardAt + 4 + 2)
    /\ At(sf.m_bytes, MetadataAt + 7) = At(sf.m_bytes, CardAt + 4 + 3)
    /\ RawGiven => ReadU16(sf.m_bytes, MetadataAt + 6)
                     = ReadU16(LastBytes(RawCards[call.args.raw], 332), 2)

\* the metadata cleared and a card with an icon written
C8_Witness ==
  /\ InjectDone
  /\ call.args.clearMetadata
  /\ ReadU16(sf.m_bytes, MetadataAt + 6) # 0
  /\ At(sf.m_bytes, MetadataAt) = 0

\* section 2 of the active slot of the loaded file, and its flag byte and bit
Section2Base == sf.m_activeSaveSlot * 57344 + ((2 + 14 - call.file.rot) % 14) * 4096

FlagAt == Section2Base + (IF call.file.game = "EM" THEN 1035 ELSE 103)

FlagBit == IF call.file.game = "EM" THEN 8 ELSE 2

Section2SumStored ==
  ReadU16(sf.m_bytes, Section2Base + 4086)
    = computeSectionChecksum(sf.m_bytes, Section2Base, 3968)

\* C9 as stated: after enableMysteryGift returns true the bit is set,
\* isMysteryGiftEnabled() is true and the stored checksum of section 2 is the
\* one of its bytes, also when the bit was set before the call.
C9_EnableLeavesChecksumRight ==
  EnableDone =>
    /\ HasBit(At(sf.m_bytes, FlagAt), FlagBit)
    /\ isMysteryGiftEnabled(sf)
    /\ Section2SumStored

\* C9 as amended: after enableMysteryGift returns true the bit is set and
\* isMysteryGiftEnabled() is true; when the call set the bit, the stored
\* checksum of section 2 is the one of its bytes; when the bit was set
\* before the call, the call wrote nothing and the buffer is as it was.
C9_EnableSetsBitAndSum ==
  EnableDone =>
    /\ HasBit(At(sf.m_bytes, FlagAt), FlagBit)
    /\ isMysteryGiftEnabled(sf)
    /\ IF HasBit(At(call.pre.m_bytes, FlagAt), FlagBit)
         THEN sf.m_bytes = call.pre.m_bytes /\ call.log = <<>>
       ELSE Section2SumStored

\* the call set the bit of a save whose section 2 had a wrong checksum stored
C9_Witness ==
  /\ EnableDone
  /\ ~HasBit(At(call.pre.m_bytes, FlagAt), FlagBit)
  /\ ReadU16(call.pre.m_bytes, Section2Base + 4086)
       # computeSectionChecksum(call.pre.m_bytes, Section2Base, 3968)

\* C10: after loadFromFile, isLoaded() holds iff it returned true; it returns
\* true only for a file of 131072 bytes; after a failed load there are no
\* bytes, the game is Unknown and the active slot is -1.
C10_LoadAllOrNothing ==
  call.op = "loadFromFile" =>
    /\ isLoaded(sf) <=> call.ret
    /\ call.ret => disk[call.file].data.size = 131072 /\ sf.m_bytes = disk[call.file].data
    /\ ~call.ret => /\ sf.m_bytes = EmptyBytes
                    /\ sf.m_detectedGame = "Unknown"
                    /\ sf.m_activeSaveSlot = -1

\* a load that fails on an object holding a valid save
C10_Witness ==
  /\ call.op = "loadFromFile"
  /\ ~call.ret
  /\ call.pre.m_bytes.size = 131072
  /\ call.pre.m_checksumValid
  /\ call.pre.m_detectedGame # "Unknown"

\* bytes of s unchanged by the call, which failed with a message
Refused == ~call.ret /\ call.err # "" /\ sf.m_bytes = call.pre.m_bytes

\* no physical position of the active slot of s carries the logical id `id`
Absent(s, id) ==
  \A pos \in 0 .. 13 :
    ReadU16(s.m_bytes, s.m_activeSaveSlot * 57344 + pos * 4096 + 4084) # id

\* s gives a mutation of the section with logical id `id` nothing to work on
NoTarget(s, id) ==
  \/ s.m_bytes.size = 0
  \/ s.m_detectedGame \in {"Unknown", "RubySapphire"}
  \/ Absent(s, id)

\* C11: injectWonderCard and enableMysteryGift return false with an error
\* message and leave every byte of the buffer unchanged when no save is loaded,
\* the game is Unknown or Ruby/Sapphire, or the logical section they need
\* (4, respectively 2) is absent from the active slot.
C11_RefusedWithoutTarget ==
  /\ (call.op = "injectWonderCard" /\ NoTarget(call.pre, 4)) => Refused
  /\ (call.op = "enableMysteryGift" /\ NoTarget(call.pre, 2)) => Refused

\* offsets at which the buffers a and b differ
Diff(a, b) == {o \in DOMAIN a.nz \cup DOMAIN b.nz : At(a, o) # At(b, o)}

\* lowest physical position of the slot carrying the 16-bit footer id, or -1
IndexOf(bytes, slot, id) ==
  IF \A pos \in 0 .. 13 : ReadU16(bytes, slot * 57344 + pos * 4096 + 4084) # id THEN -1
  ELSE CHOOSE pos \in 0 .. 13 :
         /\ ReadU16(bytes, slot * 57344 + pos * 4096 + 4084) = id
         /\ \A q \in 0 .. (pos - 1) : ReadU16(bytes, slot * 57344 + q * 4096 + 4084) # id

Mutation == call.op \in {"injectWonderCard", "enableMysteryGift"}

\* offsets of the section at `base` that are not its footer id, signature or counter
Writable(base) == (base .. (base + 4083)) \cup {base + 4086, base + 4087}

\* base of the section of the active slot of s with logical id `id`
BaseOf(s, id) ==
  s.m_activeSaveSlot * 57344 + IndexOf(s.m_bytes, s.m_activeSaveSlot, id) * 4096

\* C12: injectWonderCard changes only bytes of the physical section of the
\* active slot that has logical id 4, enableMysteryGift only the flag byte and
\* the two checksum bytes of the section with logical id 2; no footer id,
\* signature, save counter, byte of the inactive slot or byte after the slots
\* changes, and every logical id keeps its physical position.
C12_MutationFrame ==
  /\ call.op = "injectWonderCard" /\ Diff(call.pre.m_bytes, sf.m_bytes) # {} =>
       /\ IndexOf(call.pre.m_bytes, call.pre.m_activeSaveSlot, 4) >= 0
       /\ Diff(call.pre.m_bytes, sf.m_bytes) \subseteq Writable(BaseOf(call.pre, 4))
  /\ call.op = "enableMysteryGift" /\ Diff(call.pre.m_bytes, sf.m_bytes) # {} =>
       /\ IndexOf(call.pre.m_bytes, call.pre.m_activeSaveSlot, 2) >= 0
       /\ Diff(call.pre.m_bytes, sf.m_bytes) \subseteq
            {BaseOf(call.pre, 2) + (IF call.pre.m_detectedGame = "Emerald" THEN 1035 ELSE 103),
             BaseOf(call.pre, 2) + 4086, BaseOf(call.pre, 2) + 4087}
  /\ Mutation =>
       /\ sf.m_bytes.size = call.pre.m_bytes.size
       /\ sf.m_activeSaveSlot = call.pre.m_activeSaveSlot
       /\ sf.m_bytes.size > 0 =>
            \A id \in 0 .. 13 :
              IndexOf(sf.m_bytes, sf.m_activeSaveSlot, id)
                = IndexOf(call.pre.m_bytes, sf.m_activeSaveSlot, id)

\* `byte` is what the stated rule gives for the code unit c: the alphabet
\* position for digits and letters, else a table position of c, else 0x00
Encodes(c, byte) ==
  IF c >= 48 /\ c <= 57 THEN byte = 161 + (c - 48)
  ELSE IF c >= 65 /\ c <= 90 THEN byte = 187 + (c - 65)
  ELSE IF c >= 97 /\ c <= 122 THEN byte = 213 + (c - 97)
  ELSE IF \E i \in 1 .. 256 : GEN3_TO_UNICODE[i] = c THEN GEN3_TO_UNICODE[byte + 1] = c
  ELSE byte = 0

C14_TextRoundTripStable ==
  (fn.op = "text" /\ fn.from >= 0 /\ GEN3_TO_UNICODE[fn.from + 1] # 0) =>
    /\ Len(fn.texts) >= 1 => Len(fn.texts[1]) = 1
    /\ Len(fn.texts) >= 2 => Len(fn.texts[2]) >= 1 /\ fn.texts[2][1] = fn.texts[1][1]
    /\ Len(fn.texts) >= 3 => fn.texts[3] = fn.texts[2]

\* byte 0x43 ('P' of the PKMN glyphs) decoded, re-encoded to 0xCA, twice over
C14_Witness ==
  /\ fn.op = "text"
  /\ fn.from = 67
  /\ fn.maxLength = 3
  /\ Len(fn.texts) = 3
  /\ fn.texts[1] = <<80>>
  /\ fn.texts[3] = <<80, 32, 32>>
  /\ At(fn.dest, 0) = 202

\* a XOR b on naturals, bit by bit
RECURSIVE XorNat(_, _)
XorNat(a, b) ==
  IF a = 0 THEN b
  ELSE IF b = 0 THEN a
  ELSE 2 * XorNat(a \div 2, b \div 2) + ((a + b) % 2)

\* entry i of the table as a little-endian 16-bit value
TableEntry(table, i) == At(table, 2 * i) + 256 * At(table, 2 * i + 1)

\* the running value after the first k bytes of data, from the seed 0x1121
RECURSIVE Running(_, _, _)
Running(data, table, k) ==
  IF k = 0 THEN 4385
  ELSE XorNat(TableEntry(table, XorNat(Running(data, table, k - 1), At(data, k - 1)) % 256),
              Running(data, table, k - 1) \div 256)

\* C15: with a 512-byte table, calculateCRC16 is the 16-bit NOT of the value
\* run from 0x1121 by crc := T[(crc XOR byte) AND 0xFF] XOR (crc >> 8) over
\* the bytes in order; for the empty buffer it is 0xEEDE.
C15_Crc16Formula ==
  (fn.op = "crc" /\ fn.out # -1 /\ CrcTables[fn.table].size = 512) =>
    /\ fn.out = 65535 - Running(fn.data, CrcTables[fn.table], fn.data.size)
    /\ fn.data.size = 0 => fn.out = 61150

\* the CRC of the three bytes 0x21, 0xFF, 0x00
C15_Witness ==
  /\ fn.op = "crc"
  /\ fn.out # -1
  /\ fn.table = "ok"
  /\ fn.data.size = 3
  /\ At(fn.data, 0) = 33
  /\ At(fn.data, 1) = 255
  /\ At(fn.data, 2) = 0

\* b is the byte the stated encoding gives the character c of the table
EncodedAs(c, b) ==
  /\ c # 0
  /\ c # 32
  /\ Encodes(c, b)
  /\ \/ (c >= 48 /\ c <= 57) \/ (c >= 65 /\ c <= 90) \/ (c >= 97 /\ c <= 122)
     \/ \A j \in 1 .. b : GEN3_TO_UNICODE[j] # c

\* b is a byte of zero-padded encoded text
EncodedByte(b) == b = 0 \/ EncodedAs(GEN3_TO_UNICODE[b + 1], b)

SameBytes(a, b) == a.size = b.size /\ \A i \in 0 .. (a.size - 1) : At(a, i) = At(b, i)

\* C16: for a 332-byte payload whose eight text fields (bytes 10..329) are
\* zero-padded encoded text, encodeWonderCard(parseWonderCard(p)) is p, byte
\* for byte, numeric fields and the bytes after the last field included.
C16_CardRoundTrip ==
  (/\ fn.op = "card"
   /\ fn.last = "encodeWonderCard"
   /\ fn.payload.size = 332
   /\ \A i \in 10 .. 329 : EncodedByte(At(fn.payload, i)))
  => SameBytes(fn.out, fn.payload)

\* C16 amended: the round trip reproduces p when, besides, the two bytes after
\* the last text field (330 and 331) are 0x00.
C16_CardRoundTripZeroTail ==
  (/\ fn.op = "card"
   /\ fn.last = "encodeWonderCard"
   /\ fn.payload.size = 332
   /\ \A i \in 10 .. 329 : EncodedByte(At(fn.payload, i))
   /\ At(fn.payload, 330) = 0
   /\ At(fn.payload, 331) = 0)
  => SameBytes(fn.out, fn.payload)

\* the card titled "TEST" with all numeric fields set, parsed and encoded
C16_Witness ==
  /\ fn.op = "card"
  /\ fn.last = "encodeWonderCard"
  /\ fn.payload.size = 332
  /\ At(fn.payload, 7) = 128
  /\ At(fn.payload, 10) = 206
  /\ At(fn.payload, 13) = 206
  /\ At(fn.payload, 329) = 213
  /\ At(fn.payload, 331) = 0
  /\ fn.data.title[1] = 84
  /\ Len(fn.data.title) = 40
  /\ SameBytes(fn.out, fn.payload)

\* offset + k exceeds the length of the buffer, as numbers (no wrap-around)
Past(o, k, rom) == o[1] > 0 \/ o[2] + k > rom.size

\* C19: for every 32-bit offset the reads never index outside the buffer,
\* readByte, readHalfWord and readWord return 0 when a byte of the access is
\* at or after the buffer length, and readBytes returns empty when
\* offset + len exceeds it; offsets near 2^32 included.
C19_ReadsStayInside ==
  (fn.op = "read" /\ fn.last # "args") =>
    /\ ~fn.out.oob
    /\ (fn.last = "readByte" /\ Past(fn.offset, 1, fn.rom)) => fn.out.val = 0
    /\ (fn.last = "readHalfWord" /\ Past(fn.offset, 2, fn.rom)) => fn.out.val = 0
    /\ (fn.last = "readWord" /\ Past(fn.offset, 4, fn.rom)) => fn.out.val = <<0, 0>>
    /\ (fn.last = "readBytes" /\ Past(fn.offset, fn.length, fn.rom)) => fn.out.val.size = 0

\* every reference from token i on, n bytes being out, reaches no further
\* back than the start of the output
RECURSIVE RefsInside(_, _, _)
RefsInside(tokens, i, n) ==
  IF i > Len(tokens) THEN TRUE
  ELSE IF tokens[i][1] = "lit" THEN RefsInside(tokens, i + 1, n + 1)
  ELSE tokens[i][3] <= n /\ RefsInside(tokens, i + 1, n + tokens[i][2])

\* n bytes copied one at a time from disp bytes behind the end of out
RECURSIVE CopyBack(_, _, _)
CopyBack(out, disp, n) ==
  IF n = 0 THEN out ELSE CopyBack(Append(out, out[Len(out) - disp + 1]), disp, n - 1)

\* what the tokens from i on add to out
RECURSIVE Expand(_, _, _)
Expand(tokens, i, out) ==
  IF i > Len(tokens) THEN out
  ELSE IF tokens[i][1] = "lit" THEN Expand(tokens, i + 1, Append(out, tokens[i][2]))
  ELSE Expand(tokens, i + 1, CopyBack(out, tokens[i][3], tokens[i][2]))

LzDone == fn.op = "lz" /\ fn.last = "decompressLZ77"

\* the buffer holds a whole stream at the offset given, standing for at least
\* the declared number of bytes
WellFormedStream ==
  /\ fn.case.type = 16
  /\ fn.case.cut = 0
  /\ fn.case.offset = <<0, fn.case.pad>>
  /\ RefsInside(fn.case.tokens, 1, 0)
  /\ fn.case.declared >= 1
  /\ fn.case.declared <= TokenTotal(fn.case.tokens, 1)

\* C17: for a well-formed stream decompressLZ77 returns exactly the declared
\* number of bytes, those of the byte-by-byte expansion of its tokens (flag
\* bits MSB first, length = high nibble + 3, displacement = low nibble << 8 |
\* byte2, plus 1, overlapping copies repeating, the last copy cut at the
\* declared length).
C17_Lz77Decodes ==
  (LzDone /\ WellFormedStream) =>
    /\ fn.out.err = ""
    /\ Len(fn.out.data) = fn.case.declared
    /\ fn.out.data = SubSeq(Expand(fn.case.tokens, 1, <<>>), 1, fn.case.declared)

\* lit 7, a reference to it of length 3, then one of length 5 and
\* displacement 2 cut after its fourth byte
C17_Witness ==
  /\ LzDone
  /\ WellFormedStream
  /\ fn.case.tokens = <<<<"lit", 7, 0>>, <<"ref", 3, 1>>, <<"ref", 5, 2>>>>
  /\ fn.case.declared = 8
  /\ fn.out.data = <<7, 7, 7, 7, 7, 7, 7, 7>>

\* the call failed: an error message and no bytes
LzFailed == fn.out.err # "" /\ fn.out.data = <<>>

\* the header is the one the case describes
LzAligned == fn.case.offset = <<0, fn.case.pad>>

\* a reference among the tokens from i on reaches before the start of the
\* output, n bytes being out and fewer than d
RECURSIVE BadRefBefore(_, _, _, _)
BadRefBefore(tokens, i, n, d) ==
  IF i > Len(tokens) \/ n >= d THEN FALSE
  ELSE IF tokens[i][1] = "lit" THEN BadRefBefore(tokens, i + 1, n + 1, d)
  ELSE tokens[i][3] > n \/ BadRefBefore(tokens, i + 1, n + tokens[i][2], d)

LzSizeOk == fn.case.type = 16 /\ fn.case.declared >= 1 /\ fn.case.declared <= 1048576

\* the buffer ends before the tokens have given the declared number of bytes
LzEndsEarly ==
  /\ LzAligned
  /\ LzSizeOk
  /\ fn.case.junk = 0
  /\ RefsInside(fn.case.tokens, 1, 0)
  /\ \/ fn.case.cut = 0 /\ fn.case.declared > TokenTotal(fn.case.tokens, 1)
     \/ fn.case.cut > 0 /\ fn.case.declared = TokenTotal(fn.case.tokens, 1)

\* C18: decompressLZ77 ends on every input, reads nothing outside the buffer
\* or the output written, and returns an error with an empty result, never a
\* partial one, when the header byte is not 0x10, the declared length is 0 or
\* above 1 MiB, a displacement reaches before the start of the output, or the
\* data ends before the declared length is produced.
C18_Lz77FailsClean ==
  /\ (fn.op = "lz" /\ fn.last = "args") =>
       /\ decompressLZ77(fn.rom, fn.case.offset) # {}
       /\ \A r \in decompressLZ77(fn.rom, fn.case.offset) :
            ~r.oob /\ (r.err = "" \/ r.data = <<>>)
  /\ LzDone =>
       /\ ~fn.out.oob
       /\ fn.out.err # "" => fn.out.data = <<>>
       /\ fn.out.err = "" => Len(fn.out.data) = lzDeclaredSize(fn.rom, fn.case.offset)
       /\ (fn.case.offset[1] > 0 \/ fn.case.offset[2] >= fn.rom.size) => LzFailed
       /\ (LzAligned /\ fn.case.type # 16) => LzFailed
       /\ (LzAligned /\ (fn.case.declared = 0 \/ fn.case.declared > 1048576)) => LzFailed
       /\ (LzAligned /\ LzSizeOk /\ fn.case.cut = 0
           /\ BadRefBefore(fn.case.tokens, 1, 0, fn.case.declared)) => LzFailed
       /\ LzEndsEarly => LzFailed

\* lit 7, then a reference of displacement 2 with one byte out
C18_Witness ==
  /\ LzDone
  /\ fn.case.tokens = <<<<"lit", 7, 0>>, <<"ref", 5, 2>>>>
  /\ fn.case.declared = 6
  /\ fn.out.err = "Invalid LZ77 displacement"
  /\ fn.out.data = <<>>

TileDone == fn.op = "tile" /\ fn.last = "extractTile4bpp"

FontDone == fn.op = "tile" /\ fn.last = "extractFont2bpp"

\* offset + count reaches past the end of the buffer
NeedsPast(offset, count, rom) ==
  count > 0 /\ (offset[1] > 0 \/ offset[2] + count > rom.size)

\* the bytes the tiles of a width x height image take
TileBytesNeeded(shape) == (shape.width \div 8) * (shape.height \div 8) * TILE_SIZE_4BPP

\* the bytes the glyph tiles of the font take
FontBytesNeeded(shape) ==
  fontTileHeight(shape.numChars, 8, shape.charHeight, shape.columns) * shape.columns * 16

\* C20: extractTile4bpp and extractFont2bpp return no image when a tile or
\* glyph byte they need lies at or after the end of the ROM buffer.
C20_ExtractionFailsPastEnd ==
  /\ (TileDone /\ fn.shape.width % 8 = 0 /\ fn.shape.height % 8 = 0
        /\ NeedsPast(fn.offset, TileBytesNeeded(fn.shape), fn.rom))
       => fn.out.null /\ ~fn.out.fault
  /\ (FontDone /\ NeedsPast(fn.offset, FontBytesNeeded(fn.shape), fn.rom))
       => fn.out.null

\* C26: when validateChecksums() is true of a loaded FireRed/LeafGreen or
\* Emerald save, it is still true after a successful injectWonderCard or
\* enableMysteryGift.
C26_ValidityPreserved ==
  (/\ Mutation
   /\ call.ret
   /\ sf.m_detectedGame \in {"FireRedLeafGreen", "Emerald"}
   /\ validateChecksums(call.pre).ret)
    => validateChecksums(sf).ret

\* C27: after injectWonderCard returns true, hasWonderCard() is true, whatever
\* the payload and the CRC table.
C27_InjectedCardIsSeen == InjectDone => hasWonderCard(sf)

\* C28: for every loaded save findWonderCardBlock() returns the index that
\* findSection(4) returns.
C28_LocatorsAgree == isLoaded(sf) => findWonderCardBlock(sf) = findSection(sf, 4)

\* injectWonderCard with the arguments named by a
InjectWith(s, a) ==
  injectWonderCard(s, Records[a.rec], Scripts[a.script], CrcTables[a.table],
                   RawCards[a.raw],
                   [clearMetadata |-> a.clearMetadata, clearTrainerIds |-> a.clearTrainerIds])

\* r and q are results of calls that succeeded and left the same bytes
SameOutcome(r, q) == r.ret /\ q.ret /\ r.obj.m_bytes = q.obj.m_bytes

\* C29: injectWonderCard and enableMysteryGift commute: on a loaded save on
\* which both succeed, inject then enable leaves the bytes that enable then
\* inject leaves.
C29_InjectEnableCommute ==
  /\ (InjectDone /\ enableMysteryGift(call.pre).ret /\ enableMysteryGift(sf).ret) =>
       SameOutcome(enableMysteryGift(sf),
                   InjectWith(enableMysteryGift(call.pre).obj, call.args))
  /\ EnableDone =>
       \A a \in FrameCalls :
         (InjectWith(call.pre, a).ret /\ InjectWith(sf, a).ret) =>
           SameOutcome(InjectWith(sf, a), enableMysteryGift(InjectWith(call.pre, a).obj))

\* enable has set the bit after an inject changed the gift section, and the
\* other order writes both sections too
C29_Witness ==
  /\ EnableDone
  /\ ~HasBit(At(call.pre.m_bytes, FlagAt), FlagBit)
  /\ sf.m_bytes # call.pre.m_bytes
  /\ \E a \in FrameCalls :
       /\ InjectWith(sf, a).ret
       /\ InjectWith(sf, a).obj.m_bytes # sf.m_bytes
       /\ InjectWith(call.pre, a).obj.m_bytes # call.pre.m_bytes

\* the file at path is the one that was there before the call, or all of m_bytes
TargetWhole == disk.path = fn.before \/ disk.path = FileOf(sf.m_bytes)

\* C30: at every step of saveToFile, whatever file-system call fails, the
\* file at path is the complete previous file or the complete buffer; when
\* the call returns false the previous file is at path as it was.
C30_SaveAtomic ==
  fn.op = "save" =>
    /\ TargetWhole
    /\ (fn.pc = "done" /\ ~fn.ret) => disk.path = fn.before

\* the version the database has for the ROM the reader holds, by content
VersionOfRom(romData) ==
  IF \E f \in DOMAIN RomFiles : RomFiles[f].file.opens /\ RomFiles[f].file.data = romData
    THEN RomFiles[CHOOSE f \in DOMAIN RomFiles :
                    RomFiles[f].file.opens /\ RomFiles[f].file.data = romData].version
  ELSE NoVersion

\* the name the ROM held gives for id in a table of its version, read without a cache
UncachedName(romData, hasNameTables, table, id, length) ==
  IF ~hasNameTables \/ id >= table.count THEN <<>>
  ELSE IF table.offset + id * table.entrySize + length > romData.size THEN <<>>
  ELSE decodeGen3String(Mid(romData, table.offset + id * table.entrySize, length))

\* C21: a name lookup returns the name decoded from the ROM the reader holds
\* at the entry of the id in the tables of that ROM's version, and the empty
\* name when no name tables were resolved for it, after any sequence of loads
\* and lookups.
C21_NamesNeverStale ==
  /\ (fn.op = "names" /\ fn.last = "getItemName") =>
       fn.ret = itemFormat(UncachedName(fn.reader.m_romData,
                             VersionOfRom(fn.reader.m_romData).hasNameTables,
                             VersionOfRom(fn.reader.m_romData).itemTable, fn.id,
                             VersionOfRom(fn.reader.m_romData).itemTable.nameLength))
  /\ (fn.op = "names" /\ fn.last = "getPokemonName") =>
       fn.ret = UncachedName(fn.reader.m_romData,
                             VersionOfRom(fn.reader.m_romData).hasNameTables,
                             VersionOfRom(fn.reader.m_romData).pokemonTable, fn.id,
                             VersionOfRom(fn.reader.m_romData).pokemonTable.entrySize)
  /\ (fn.op = "names" /\ fn.last = "getMoveName") =>
       fn.ret = UncachedName(fn.reader.m_romData,
                             VersionOfRom(fn.reader.m_romData).hasNameTables,
                             VersionOfRom(fn.reader.m_romData).moveTable, fn.id,
                             VersionOfRom(fn.reader.m_romData).moveTable.entrySize)


\* the disassembly done last
Disassembly == fn.op = "disasm" /\ fn.last = "disassemble"

ROM_WINDOW_END == <<2559, 65535>>

\* the i-th instruction of the list is a set-virtual-address with its
\* argument inside the ROM address window
SetsBase(i) ==
  /\ fn.obj.m_instructions[i].opcode = 184
  /\ fn.obj.m_instructions[i].args # <<>>
  /\ U32Ge(fn.obj.m_instructions[i].args[1], ROM_WINDOW_START)
  /\ U32Ge(ROM_WINDOW_END, fn.obj.m_instructions[i].args[1])

FirstSetsBase ==
  CHOOSE i \in 1 .. Len(fn.obj.m_instructions) :
    SetsBase(i) /\ \A j \in 1 .. i - 1 : ~SetsBase(j)

\* the i-th instruction is a jump or call with all its arguments
JumpAt(i, opcodes) ==
  /\ fn.obj.m_instructions[i].opcode \in opcodes
  /\ Len(fn.obj.m_instructions[i].args) = Len(fn.obj.m_commands[fn.obj.m_instructions[i].opcode].args)

LastArg(i) == fn.obj.m_instructions[i].args[Len(fn.obj.m_instructions[i].args)]

\* the i-th instruction jumps to offset t of the script
JumpsTo(i, t) ==
  \/ JumpAt(i, 4 .. 7) /\ LastArg(i) = <<0, t>>
  \/ /\ JumpAt(i, 185 .. 188)
     /\ fn.obj.m_inferredBase # U32Zero
     /\ U32Ge(LastArg(i), fn.obj.m_inferredBase)
     /\ U32Minus(LastArg(i), fn.obj.m_inferredBase) = <<0, t>>

JumpTargets ==
  {t \in 0 .. fn.data.size - 1 : \E i \in 1 .. Len(fn.obj.m_instructions) : JumpsTo(i, t)}

FirstSeen(t) == CHOOSE i \in 1 .. Len(fn.obj.m_instructions) :
                  JumpsTo(i, t) /\ \A j \in 1 .. i - 1 : ~JumpsTo(j, t)

\* C22: the base recorded is argument - offset of the first set-virtual-address
\* instruction before the terminal opcode whose argument lies in the ROM
\* address window 0x08000000..0x09FFFFFF; without one the base is 0, no
\* virtual jump gets a label, no embedded string is listed and no error is
\* reported.
C22_BaseFromWindow ==
  Disassembly =>
    /\ fn.ret.error = ""
    /\ (\E i \in 1 .. Len(fn.obj.m_instructions) : SetsBase(i)) =>
         fn.obj.m_inferredBase =
           U32Minus(fn.obj.m_instructions[FirstSetsBase].args[1],
                    <<0, fn.obj.m_instructions[FirstSetsBase].offset>>)
    /\ (~\E i \in 1 .. Len(fn.obj.m_instructions) : SetsBase(i)) =>
         /\ fn.obj.m_inferredBase = U32Zero
         /\ fn.ret.base = <<>>
         /\ fn.ret.strings = <<>>
         /\ \A t \in DOMAIN fn.obj.m_labels :
              \E i \in 1 .. Len(fn.obj.m_instructions) :
                JumpAt(i, 4 .. 7) /\ LastArg(i) = <<0, t>>

\* C23: the labels are exactly the offsets inside the script that a direct or
\* virtual jump or call resolves to, their names are label_0 .. label_(n-1),
\* each once, in the order the targets are first met; the script of one goto
\* and the terminal opcode has one label, at the target of the goto.
C23_LabelsExact ==
  Disassembly =>
    /\ DOMAIN fn.obj.m_labels = JumpTargets
    /\ fn.ret.labels = Cardinality(JumpTargets)
    /\ {fn.obj.m_labels[t] : t \in DOMAIN fn.obj.m_labels}
         = {<<"label_", k>> : k \in 0 .. Cardinality(JumpTargets) - 1}
    /\ \A t, u \in DOMAIN fn.obj.m_labels :
         (fn.obj.m_labels[t][2] < fn.obj.m_labels[u][2]) <=> (FirstSeen(t) < FirstSeen(u))
    /\ \A t \in 0 .. 5 :
         fn.data = ScriptOf(<<5, t, 0, 0, 0, 2>>) =>
           /\ DOMAIN fn.obj.m_labels = {t}
           /\ fn.obj.m_labels[t] = <<"label_", 0>>

C23_Witness ==
  /\ Disassembly
  /\ Cardinality(DOMAIN fn.obj.m_labels) = 2
  /\ \E i \in 1 .. Len(fn.obj.m_instructions) : JumpAt(i, 185 .. 188)
  /\ Len(fn.obj.m_instructions) = 3

\* the bytes of the i-th instruction
RawSize(i) == fn.obj.m_instructions[i].rawBytes.size

\* C24: the instruction list starts at offset 0, every instruction holds at
\* least one byte, the bytes of the script at its offset, and is followed by
\* the instruction at its offset plus its length; an opcode without
\* definition is a one-byte db; the terminal opcode occurs only as the last
\* instruction, and a list without it reaches the end of the script.
C24_WalkPartitions ==
  (Disassembly /\ DOMAIN fn.obj.m_commands # {}) =>
    /\ (fn.obj.m_instructions = <<>>) <=> (fn.data.size = 0)
    /\ fn.obj.m_instructions # <<>> => fn.obj.m_instructions[1].offset = 0
    /\ \A i \in 1 .. Len(fn.obj.m_instructions) :
         /\ RawSize(i) >= 1
         /\ fn.obj.m_instructions[i].offset + RawSize(i) <= fn.data.size
         /\ fn.obj.m_instructions[i].rawBytes
              = Mid(fn.data, fn.obj.m_instructions[i].offset, RawSize(i))
         /\ fn.obj.m_instructions[i].opcode = At(fn.data, fn.obj.m_instructions[i].offset)
         /\ fn.obj.m_instructions[i].opcode \notin DOMAIN fn.obj.m_commands \cup {2} =>
              fn.obj.m_instructions[i].name = "db" /\ RawSize(i) = 1
         /\ i < Len(fn.obj.m_instructions) =>
              /\ fn.obj.m_instructions[i + 1].offset = fn.obj.m_instructions[i].offset + RawSize(i)
              /\ fn.obj.m_instructions[i].opcode # 2
         /\ i = Len(fn.obj.m_instructions) =>
              \/ fn.obj.m_instructions[i].opcode = 2
              \/ fn.obj.m_instructions[i].offset + RawSize(i) = fn.data.size

C24_Witness ==
  /\ Disassembly
  /\ Len(fn.obj.m_instructions) = 2
  /\ fn.obj.m_instructions[1].name = "db"
  /\ fn.obj.m_instructions[2].opcode = 2
  /\ fn.data.size = 7

\* the last call made on a disassembler just constructed with the same
\* command definitions and flag names
FreshDisassembly ==
  disassemble(NewDisassembler(fn.obj.m_commands, fn.obj.m_flags), fn.data, fn.show[1],
              fn.show[2], fn.show[3])

\* C25: a disassembly returns the text, and leaves the labels, the
\* instruction list and every other member, that the same call gives on a
\* disassembler just constructed, whatever was disassembled before; the
\* script kept is the script given.
C25_HistoryIndependent ==
  Disassembly =>
    /\ fn.ret = FreshDisassembly.ret
    /\ fn.obj = FreshDisassembly.obj
    /\ DOMAIN fn.obj.m_commands # {} => fn.obj.m_scriptData = fn.data

C25_Witness ==
  /\ Disassembly
  /\ fn.n = 2
  /\ fn.prev # fn.data
  /\ fn.prev.size > fn.data.size
  /\ fn.data.size > 1
  /\ fn.ret.error = ""

====
